---- MODULE Spec2Model ----
(***************************************************************************)
(* Model of the aeroscan capture-and-reconciliation engine.                *)
(*   src/app2.py : ledger (codigos_encontrados.csv), box registry          *)
(*                 (caixas_registradas.csv), counter (contagem_caixas.txt),*)
(*                 capture worker, StartCapture / StopCapture / Poll,      *)
(*                 SubmitImage, BeginRound / EndRound.                     *)
(*   src/app.py  : the older variant of register_caixa / caixa_exists and  *)
(*                 of the EndRound report (analyze_inventory_report).      *)
(*                                                                         *)
(* Python str values are sequences of one-character strings, so that       *)
(* '|'.join, str.split('|') and sorted() are computed, not assumed.        *)
(***************************************************************************)
EXTENDS Integers, Sequences, FiniteSets, TLC

VARIABLES
    codigos,          \* uploads/codigos_encontrados.csv, the ledger
    caixas,           \* uploads/caixas_registradas.csv, the box registry
    contagem,         \* uploads/contagem_caixas.txt, the counter
    call,             \* the last call or request served and what it returned
    capture_thread,   \* _capture_thread: 0 for None, or a thread
    capture_lock,     \* _capture_lock: "free" or the request that holds it
    stop_event,       \* _capture_stop_event
    capture_seen,     \* _capture_seen
    capture_queue,    \* _capture_queue
    last_frame_jpeg,  \* _last_frame_jpeg: 0 for None, or the thread that wrote it
    threads,          \* the _capture_loop threads started so far
    starts,           \* the camera_live_start requests being served
    stopper,          \* the camera_live_stop request being served
    uploader,         \* the upload_image request being served
    queue_lock,       \* _queue_lock: "free" or the thread that holds it
    last_frame_lock,  \* _last_frame_lock: "free" or the thread that holds it
    poller,           \* the camera_live_poll request being served
    viewer            \* the camera_frame / camera_mjpeg request being served

storeVars == <<codigos, caixas, contagem>>
lockVars == <<queue_lock, last_frame_lock, poller, viewer>>
captureVars == <<capture_thread, capture_lock, stop_event, capture_seen,
                 capture_queue, last_frame_jpeg, threads, starts, stopper>>
vars == <<codigos, caixas, contagem, call, capture_thread, capture_lock,
          stop_event, capture_seen, capture_queue, last_frame_jpeg, threads,
          starts, stopper, uploader, lockVars>>

(***************************************************************************)
(* Bounds of the model.                                                    *)
(***************************************************************************)
\* most payloads (QR and barcode together) handed to one call of
\* save_unique_codes or register_caixa
MaxLen == 2
\* the ledger accepts a further call while it holds fewer rows than this
MaxRows == 3
\* the registry is left to grow to this many rows
MaxBoxes == 2
\* _capture_loop threads started in one run
MaxThreads == 2
\* _capture_loop threads started in one run where every lock is a step
MaxLoops == 1

(***************************************************************************)
(* Strings.                                                                *)
(***************************************************************************)
SEP == "|"

Chars == {"a", "b", "c", "d", SEP}

\* code point of a character (Python compares str by code point)
Ord(c) == CASE c = "a" -> 97 [] c = "b" -> 98 [] c = "c" -> 99
            [] c = "d" -> 100 [] c = SEP -> 124

EmptyStr == <<>>
PA == <<"a">>
PB == <<"b">>
PC == <<"c">>
PD == <<"d">>
\* a payload that contains the separator
PAB == <<"a", SEP, "b">>

\* payloads a decoder can deliver (never empty), and the same with ''
Payloads == {PA, PB, PAB}
PayloadsE == Payloads \cup {EmptyStr}

\* s < t for Python str
RECURSIVE StrLess(_, _)
StrLess(s, t) ==
    IF t = <<>> THEN FALSE
    ELSE IF s = <<>> THEN TRUE
    ELSE IF Head(s) = Head(t) THEN StrLess(Tail(s), Tail(t))
    ELSE Ord(Head(s)) < Ord(Head(t))

\* insert x into the sorted list l, after the elements that are <= x
RECURSIVE InsertSorted(_, _)
InsertSorted(x, l) ==
    IF l = <<>> THEN <<x>>
    ELSE IF StrLess(x, Head(l)) THEN <<x>> \o l
    ELSE <<Head(l)>> \o InsertSorted(x, Tail(l))

\* sorted(l) on a list of str
RECURSIVE Sorted(_)
Sorted(l) ==
    IF l = <<>> THEN <<>>
    ELSE InsertSorted(l[Len(l)], Sorted(SubSeq(l, 1, Len(l) - 1)))

\* '|'.join(l)
RECURSIVE Join(_)
Join(l) ==
    IF l = <<>> THEN EmptyStr
    ELSE IF Len(l) = 1 THEN l[1]
    ELSE l[1] \o <<SEP>> \o Join(Tail(l))

\* s.split('|'): always at least one field
RECURSIVE Split(_)
Split(s) ==
    IF s = <<>> THEN << EmptyStr >>
    ELSE IF Head(s) = SEP THEN << EmptyStr >> \o Split(Tail(s))
    ELSE LET rest == Split(Tail(s))
         IN  << <<Head(s)>> \o Head(rest) >> \o Tail(rest)

\* elements of a list, as a set
Elems(l) == {l[i] : i \in 1..Len(l)}

\* [x for x in l if x]
NonEmpty(l) == SelectSeq(l, LAMBDA x : x # EmptyStr)

\* all lists over S of length at most n
ListsUpTo(S, n) == UNION {[1..k -> S] : k \in 0..n}

\* all pairs (qr list, barcode list) over S with at most n payloads together
ListPairs(S, n) ==
    {p \in ListsUpTo(S, n) \X ListsUpTo(S, n) : Len(p[1]) + Len(p[2]) <= n}

(***************************************************************************)
(* Persisted stores.  A csv file is (exists, data rows); every writer puts *)
(* the header line first, so DictReader yields exactly the data rows and   *)
(* csv quoting returns every field as it was written.                      *)
(***************************************************************************)
NoFile == [exists |-> FALSE, rows |-> <<>>]

QR == "QR Code"
BARCODE == "Barcode"

\* clear_codigos_encontrados: open(mode='w') + header
ClearCodigos(f) == [exists |-> TRUE, rows |-> <<>>]

\* read_codigos_encontrados: the set of non-empty 'codigo' fields
ReadCodigosEncontrados(f) ==
    {f.rows[i].codigo : i \in {j \in 1..Len(f.rows) : f.rows[j].codigo # EmptyStr}}

\* load_existing_codes: the keys of the dict it returns
LoadExistingCodes(f) ==
    {f.rows[i].codigo : i \in {j \in 1..Len(f.rows) : f.rows[j].codigo # EmptyStr}}

\* keys of a list of ledger rows
Keys(rows) == {rows[i].codigo : i \in 1..Len(rows)}

\* first loop of save_unique_codes: merged[q] = 'QR Code' for non-empty q
\* (a dict keeps the position of a key that is assigned again)
RECURSIVE MergeQR(_, _)
MergeQR(merged, qr) ==
    IF qr = <<>> THEN merged
    ELSE IF Head(qr) # EmptyStr /\ Head(qr) \notin Keys(merged)
         THEN MergeQR(Append(merged, [codigo |-> Head(qr), tipo |-> QR]), Tail(qr))
         ELSE MergeQR(merged, Tail(qr))

\* second loop: a non-empty barcode that is not yet a key
RECURSIVE MergeBC(_, _)
MergeBC(merged, bc) ==
    IF bc = <<>> THEN merged
    ELSE IF Head(bc) # EmptyStr /\ Head(bc) \notin Keys(merged)
         THEN MergeBC(Append(merged, [codigo |-> Head(bc), tipo |-> BARCODE]), Tail(bc))
         ELSE MergeBC(merged, Tail(bc))

\* a version of Merged that leaves the barcodes out
MergedQrOnly(qr, bc) == MergeQR(<<>>, qr)

Merged(qr, bc) == MergeBC(MergeQR(<<>>, qr), bc)

\* a version of ToAdd that forgets to look at the file
ToAddUnchecked(merged, existing) == merged

\* to_add: the merged rows whose codigo is not in the file
ToAdd(merged, existing) ==
    SelectSeq(merged, LAMBDA r : r.codigo \notin existing)

\* save_unique_codes up to the computation of to_add (reads the file)
SaveRead(f, qr, bc) == ToAdd(Merged(qr, bc), LoadExistingCodes(f))

\* save_unique_codes from 'if to_add:' on (appends to the file)
SaveWrite(f, toAdd) ==
    IF toAdd = <<>> THEN f
    ELSE [exists |-> TRUE, rows |-> f.rows \o toAdd]

\* new_list
NewList(toAdd) == [i \in 1..Len(toAdd) |-> toAdd[i].codigo]

\* no two rows of the ledger carry the same payload
NoDuplicatePayload(f) ==
    \A i, j \in 1..Len(f.rows) : f.rows[i].codigo = f.rows[j].codigo => i = j

NoCall == [op |-> "none"]

\* the camera_live_start requests that can be in service together
StartIds == {"s1", "s2"}

IdleUploader == [pc |-> "idle", img |-> <<>>, to_add |-> <<>>, total |-> 0]

(***************************************************************************)
(* Box registry and counter (app2.py).                                     *)
(***************************************************************************)
\* contagem_caixas.txt: absent, or a text that int() accepts, or another text
NoCount == [kind |-> "nofile", val |-> 0]
IntCount(n) == [kind |-> "int", val |-> n]

\* total = int(f.read().strip() or '0'), 0 when absent or unparsable
ReadContagem(c) == IF c.kind = "int" THEN c.val ELSE 0

\* a row of caixas_registradas.csv as caixa_exists reads it
RowQrTuple(row) == IF row.QRCodes # EmptyStr THEN Sorted(Split(row.QRCodes)) ELSE <<>>
RowBcTuple(row) == IF row.Barcodes # EmptyStr THEN Sorted(Split(row.Barcodes)) ELSE <<>>

\* a comparison that looks at the QR sub-list only
RowMatchesQrOnly(row, nova_qrs, nova_bcs) == RowQrTuple(row) = nova_qrs

\* qr_list == nova_qrs and bc_list == nova_bcs
RowMatches(row, nova_qrs, nova_bcs) ==
    RowQrTuple(row) = nova_qrs /\ RowBcTuple(row) = nova_bcs

\* caixa_exists of app2.py
CaixaExists(f, qr_codes, barcodes) ==
    /\ f.exists
    /\ \E i \in 1..Len(f.rows) : RowMatches(f.rows[i], Sorted(qr_codes), Sorted(barcodes))

\* the row register_caixa writes
NewRow(qr_codes, barcodes) ==
    [QRCodes |-> Join(Sorted(qr_codes)), Barcodes |-> Join(Sorted(barcodes))]

\* a version of RegAppend that puts the new row first
RegPrepend(f, qr_codes, barcodes) ==
    [exists |-> TRUE, rows |-> <<NewRow(qr_codes, barcodes)>> \o f.rows]

\* register_caixa, the append of the row
RegAppend(f, qr_codes, barcodes) ==
    [exists |-> TRUE, rows |-> Append(f.rows, NewRow(qr_codes, barcodes))]

\* register_caixa run without interruption: the stores and the value returned
RegisterCaixa(f, c, qr_codes, barcodes) ==
    IF CaixaExists(f, Sorted(qr_codes), Sorted(barcodes))
    THEN [caixas |-> f, contagem |-> c,
          ret |-> [isNew |-> FALSE, total |-> ReadContagem(c)]]
    ELSE [caixas |-> RegAppend(f, qr_codes, barcodes),
          contagem |-> IntCount(ReadContagem(c) + 1),
          ret |-> [isNew |-> TRUE, total |-> ReadContagem(c) + 1]]

\* the two calls name the same box: each sub-list of one is a permutation of
\* the same sub-list of the other
SamePair(qr1, bc1, qr2, bc2) == Sorted(qr1) = Sorted(qr2) /\ Sorted(bc1) = Sorted(bc2)

\* is this call a register call of the box the previous call registered?
Again(qr, bc) ==
    /\ call.op = "register"
    /\ SamePair(call.qr, call.bc, qr, bc)

(***************************************************************************)
(* SpecRegistry: sequential calls of register_caixa (app2.py).             *)
(***************************************************************************)
\* the module's globals as the import leaves them, and no request in service
InitCapture ==
    /\ capture_thread = 0
    /\ capture_lock = "free"
    /\ stop_event = FALSE
    /\ capture_seen = {}
    /\ capture_queue = <<>>
    /\ last_frame_jpeg = 0
    /\ threads = <<>>
    /\ starts = [s \in StartIds |-> [pc |-> "idle", mode |-> "none"]]
    /\ stopper = [pc |-> "idle", target |-> 0]
    /\ uploader = IdleUploader
    /\ queue_lock = "free"
    /\ last_frame_lock = "free"
    /\ poller = "idle"
    /\ viewer = "idle"

\* the upload folder holds no store yet
InitStores ==
    /\ codigos = NoFile
    /\ caixas = NoFile
    /\ contagem = NoCount
    /\ call = NoCall

InitRegistry == InitStores /\ InitCapture

Register ==
    \E p \in ListPairs(Payloads, MaxLen) :
        LET r == RegisterCaixa(caixas, contagem, p[1], p[2])
        IN  /\ Len(r.caixas.rows) <= MaxBoxes
            /\ caixas' = r.caixas
            /\ contagem' = r.contagem
            /\ call' = [op |-> "register", qr |-> p[1], bc |-> p[2], ret |-> r.ret,
                        again |-> Again(p[1], p[2])]
            /\ UNCHANGED <<codigos, captureVars, uploader, lockVars>>

NextRegistry == Register

SpecRegistry == InitRegistry /\ [][NextRegistry]_vars

\* C5: register_caixa (app2.py) called twice in a row with the same QR list
\* and the same barcode list, in any internal order, returns isNew = false
\* the second time, leaves the registry and the counter as they were, and
\* returns the counter as totalCount.
C5_SecondRegisterIsNoOp ==
    [][(call.op = "register" /\ call'.op = "register"
        /\ SamePair(call.qr, call.bc, call'.qr, call'.bc))
       => (/\ call'.ret.isNew = FALSE
           /\ caixas' = caixas
           /\ contagem' = contagem
           /\ call'.ret.total = ReadContagem(contagem))]_vars

\* swap of the sub-lists: one payload moved from the QR list to the barcode
\* list of the previous call, or back
MovedOne(qr1, bc1, qr2, bc2) ==
    \/ \E i \in 1..Len(qr1) :
          /\ Sorted(qr2) = Sorted(SubSeq(qr1, 1, i - 1) \o SubSeq(qr1, i + 1, Len(qr1)))
          /\ Sorted(bc2) = Sorted(Append(bc1, qr1[i]))
    \/ \E i \in 1..Len(bc1) :
          /\ Sorted(bc2) = Sorted(SubSeq(bc1, 1, i - 1) \o SubSeq(bc1, i + 1, Len(bc1)))
          /\ Sorted(qr2) = Sorted(Append(qr1, bc1[i]))

\* C7: a register call whose sub-lists are permutations of the sub-lists of
\* the box the previous call named returns isNew = false; a call that moves
\* one payload between the QR and the barcode sub-list of that box, to a pair
\* not yet in the registry, returns isNew = true and adds a row.
C7_PairIdentity ==
    [][(call.op = "register" /\ call'.op = "register")
       => /\ SamePair(call.qr, call.bc, call'.qr, call'.bc)
               => call'.ret.isNew = FALSE
          /\ (/\ MovedOne(call.qr, call.bc, call'.qr, call'.bc)
              /\ \A i \in 1..Len(caixas.rows) :
                    caixas.rows[i] # NewRow(call'.qr, call'.bc))
               => (call'.ret.isNew = TRUE /\ Len(caixas'.rows) = Len(caixas.rows) + 1)]_vars

(***************************************************************************)
(* Decoded images and the EndRound report (app2.py).                       *)
(***************************************************************************)
QRCODE == "QRCODE"
CODE128 == "CODE128"

Det(payload, type) == [data |-> payload, type |-> type]

\* qr_codes and barcodes of upload_image: the payloads by type, in decode
\* order, repetitions kept
RECURSIVE QrCodesOf(_)
QrCodesOf(img) ==
    IF img = <<>> THEN <<>>
    ELSE IF Head(img).type = QRCODE THEN <<Head(img).data>> \o QrCodesOf(Tail(img))
    ELSE QrCodesOf(Tail(img))

RECURSIVE BarcodesOf(_)
BarcodesOf(img) ==
    IF img = <<>> THEN <<>>
    ELSE IF Head(img).type # QRCODE THEN <<Head(img).data>> \o BarcodesOf(Tail(img))
    ELSE BarcodesOf(Tail(img))

\* sorted(list(S)) for a set of str
RECURSIVE SortedOfSet(_)
SortedOfSet(S) ==
    IF S = {} THEN <<>>
    ELSE LET x == CHOOSE y \in S : \A z \in S \ {y} : StrLess(y, z)
         IN  <<x>> \o SortedOfSet(S \ {x})

\* read_registered_boxes: one dict per row
BoxOfRow(row) ==
    LET qr_list == IF row.QRCodes # EmptyStr THEN NonEmpty(Split(row.QRCodes)) ELSE <<>>
        bc_list == IF row.Barcodes # EmptyStr THEN NonEmpty(Split(row.Barcodes)) ELSE <<>>
    IN  [qrs |-> qr_list, bcs |-> bc_list, codes |-> Elems(qr_list \o bc_list),
         raw_qrs |-> row.QRCodes, raw_bcs |-> row.Barcodes]

ReadRegisteredBoxes(f) == [i \in 1..Len(f.rows) |-> BoxOfRow(f.rows[i])]

\* a version of ReadAllRegisteredCodes that reads the QRCodes column only
ReadAllRegisteredCodesQrOnly(f) ==
    UNION {Elems(BoxOfRow(f.rows[i]).qrs) : i \in 1..Len(f.rows)}

\* read_all_registered_codes
ReadAllRegisteredCodes(f) ==
    UNION {BoxOfRow(f.rows[i]).codes : i \in 1..Len(f.rows)}

\* a version of Bucket that calls a box complete as soon as one code is found
BucketAnyFound(box_codes, found_codes) ==
    IF box_codes # {} /\ box_codes \cap found_codes # {} THEN "found"
    ELSE "missing"

\* a version of Bucket without the elif: what is not complete is missing
BucketNoPartial(box_codes, found_codes) ==
    IF box_codes # {} /\ box_codes \subseteq found_codes THEN "found"
    ELSE "missing"

\* the if / elif / else of ronda_encerrar
Bucket(box_codes, found_codes) ==
    IF box_codes # {} /\ box_codes \subseteq found_codes THEN "found"
    ELSE IF box_codes # {} /\ (box_codes \cap found_codes) # {} THEN "partial"
    ELSE "missing"

\* the boxes of one bucket, in registry order
BoxesIn(boxes, found_codes, bucket) ==
    SelectSeq(boxes, LAMBDA b : Bucket(b.codes, found_codes) = bucket)

\* relatorio of ronda_encerrar
Relatorio(cod, cx) ==
    LET found_codes == ReadCodigosEncontrados(cod)
        registered_codes == ReadAllRegisteredCodes(cx)
        registered_boxes == ReadRegisteredBoxes(cx)
        bf == BoxesIn(registered_boxes, found_codes, "found")
        bp == BoxesIn(registered_boxes, found_codes, "partial")
        bm == BoxesIn(registered_boxes, found_codes, "missing")
    IN  [total_found |-> Cardinality(found_codes),
         total_registered |-> Cardinality(registered_codes),
         only_found |-> SortedOfSet(found_codes \ registered_codes),
         only_registered |-> SortedOfSet(registered_codes \ found_codes),
         common |-> SortedOfSet(found_codes \cap registered_codes),
         boxes_found |-> [i \in 1..Len(bf) |->
             [qrs |-> bf[i].qrs, bcs |-> bf[i].bcs, codes |-> SortedOfSet(bf[i].codes)]],
         boxes_partial |-> [i \in 1..Len(bp) |->
             [qrs |-> bp[i].qrs, bcs |-> bp[i].bcs,
              codes_present |-> SortedOfSet(bp[i].codes \cap found_codes),
              codes_missing |-> SortedOfSet(bp[i].codes \ found_codes)]],
         boxes_missing |-> [i \in 1..Len(bm) |->
             [qrs |-> bm[i].qrs, bcs |-> bm[i].bcs, codes |-> SortedOfSet(bm[i].codes)]]]

\* a version of RegistersBox that also takes a lone code for a box
RegistersBoxAlways(codes) == Len(codes) >= 1

\* 'if len(unique_frame_codes) >= 2', 'if len(set(todos_codigos)) >= 2'
RegistersBox(codes) == Cardinality(Elems(codes)) >= 2

\* upload_image run without interruption, from the decoded image on
UploadImage(cod, cx, ct, img) ==
    LET qr_codes == QrCodesOf(img)
        barcodes == BarcodesOf(img)
        todos_codigos == qr_codes \o barcodes
        to_add == SaveRead(cod, qr_codes, barcodes)
        reg == RegisterCaixa(cx, ct, qr_codes, barcodes)
    IN  IF todos_codigos = <<>>
        THEN [codigos |-> cod, caixas |-> cx, contagem |-> ct,
              ret |-> [error |-> TRUE, registered |-> FALSE, total_caixas |-> 0]]
        ELSE IF RegistersBox(todos_codigos)
        THEN [codigos |-> SaveWrite(cod, to_add), caixas |-> reg.caixas,
              contagem |-> reg.contagem,
              ret |-> [error |-> FALSE, registered |-> reg.ret.isNew,
                       total_caixas |-> reg.ret.total]]
        ELSE [codigos |-> SaveWrite(cod, to_add), caixas |-> cx, contagem |-> ct,
              ret |-> [error |-> FALSE, registered |-> FALSE, total_caixas |-> 0]]

(***************************************************************************)
(* SpecRound: the requests SubmitImage, BeginRound and EndRound of app2.py *)
(* served one after the other.                                             *)
(***************************************************************************)
\* the images submitted: two boxes, single codes of them, one code outside
\* every box, and a box with a payload that holds the separator
RoundImages ==
    { << Det(PA, QRCODE), Det(PB, QRCODE) >>,
      << Det(PC, QRCODE), Det(PD, CODE128) >>,
      << Det(PA, QRCODE) >>,
      << Det(PC, QRCODE) >>,
      << Det(PD, CODE128) >>,
      << Det(PAB, CODE128), Det(PC, QRCODE) >>,
      << >> }

SubmitImage ==
    \E img \in RoundImages :
        LET r == UploadImage(codigos, caixas, contagem, img)
        IN  /\ Len(r.caixas.rows) <= MaxBoxes
            /\ codigos' = r.codigos
            /\ caixas' = r.caixas
            /\ contagem' = r.contagem
            /\ call' = [op |-> "upload", img |-> img, ret |-> r.ret]
            /\ UNCHANGED <<captureVars, uploader, lockVars>>

\* a round start that also forgets what the capture has seen and queued
BeginRoundResets ==
    /\ codigos' = ClearCodigos(codigos)
    /\ call' = [op |-> "comecar"]
    /\ capture_seen' = {}
    /\ capture_queue' = <<>>
    /\ UNCHANGED <<caixas, contagem, capture_thread, capture_lock, stop_event,
                   last_frame_jpeg, threads, starts, stopper, uploader, lockVars>>

\* a round end that clears the ledger once the report is made
EndRoundClears ==
    /\ call' = [op |-> "encerrar", ret |-> Relatorio(codigos, caixas)]
    /\ codigos' = ClearCodigos(codigos)
    /\ UNCHANGED <<caixas, contagem, captureVars, uploader, lockVars>>

BeginRound ==
    /\ codigos' = ClearCodigos(codigos)
    /\ call' = [op |-> "comecar"]
    /\ UNCHANGED <<caixas, contagem, captureVars, uploader, lockVars>>

EndRound ==
    /\ call' = [op |-> "encerrar", ret |-> Relatorio(codigos, caixas)]
    /\ UNCHANGED <<codigos, caixas, contagem, captureVars, uploader, lockVars>>

NextRound == SubmitImage \/ BeginRound \/ EndRound

SpecRound == InitRegistry /\ [][NextRound]_vars

\* how many entries of a bucket show the box (qrs, bcs)
CountIn(entries, qrs, bcs) ==
    Cardinality({i \in 1..Len(entries) : entries[i].qrs = qrs /\ entries[i].bcs = bcs})

\* C9: in the report of ronda_encerrar (app2.py) every box read from the
\* registry with a non-empty code set is in exactly one bucket: complete iff
\* its code set is a subset of found, partial iff it meets found without
\* being a subset, missing iff it does not meet found; the codes_present and
\* codes_missing of a partial box partition its code set.
C9_ExactlyOneBucket ==
    call.op = "encerrar" =>
        LET found == ReadCodigosEncontrados(codigos)
            boxes == ReadRegisteredBoxes(caixas)
            r == call.ret
        IN  \A i \in 1..Len(boxes) :
              LET b == boxes[i]
                  n == Cardinality({j \in 1..Len(boxes) :
                          boxes[j].qrs = b.qrs /\ boxes[j].bcs = b.bcs})
                  nf == CountIn(r.boxes_found, b.qrs, b.bcs)
                  np == CountIn(r.boxes_partial, b.qrs, b.bcs)
                  nm == CountIn(r.boxes_missing, b.qrs, b.bcs)
              IN  b.codes # {} =>
                    /\ nf + np + nm = n
                    /\ (nf = n) <=> (b.codes \subseteq found)
                    /\ (np = n) <=> (b.codes \cap found # {} /\ ~(b.codes \subseteq found))
                    /\ (nm = n) <=> (b.codes \cap found = {})
                    /\ \A k \in 1..Len(r.boxes_partial) :
                          LET e == r.boxes_partial[k]
                          IN  (e.qrs = b.qrs /\ e.bcs = b.bcs) =>
                                /\ Elems(e.codes_present) = b.codes \cap found
                                /\ Elems(e.codes_missing) = b.codes \ found
                                /\ Elems(e.codes_present) \cap Elems(e.codes_missing) = {}
                                /\ Elems(e.codes_present) \cup Elems(e.codes_missing) = b.codes

\* a report that shows a complete box next to a partial one
C9_Witness ==
    /\ call.op = "encerrar"
    /\ Len(call.ret.boxes_found) = 1
    /\ Len(call.ret.boxes_partial) = 1
    /\ Len(call.ret.boxes_partial[1].codes_present) >= 1
    /\ Len(call.ret.boxes_partial[1].codes_missing) >= 1


(***************************************************************************)
(* SpecReport: images are uploaded, rounds begin and end; the images       *)
(* register two boxes that share a code and a box whose payloads are made  *)
(* of the separator, which read_registered_boxes reads back without codes. *)
(***************************************************************************)
\* payloads made of the separator only
PS == << SEP >>
PSS == << SEP, SEP >>

ReportImages ==
    { << Det(PA, QRCODE), Det(PB, CODE128) >>,
      << Det(PA, QRCODE), Det(PC, CODE128) >>,
      << Det(PS, QRCODE), Det(PSS, CODE128) >>,
      << Det(PS, QRCODE) >> }

SubmitReportImage ==
    \E img \in ReportImages :
        LET r == UploadImage(codigos, caixas, contagem, img)
        IN  /\ Len(r.caixas.rows) <= MaxBoxes
            /\ codigos' = r.codigos
            /\ caixas' = r.caixas
            /\ contagem' = r.contagem
            /\ call' = [op |-> "upload", img |-> img, ret |-> r.ret]
            /\ UNCHANGED <<captureVars, uploader, lockVars>>

NextReport == SubmitReportImage \/ BeginRound \/ EndRound

SpecReport == InitRegistry /\ [][NextReport]_vars

\* C11: no entry of boxes_found, boxes_partial or boxes_missing in the report
\* of ronda_encerrar (app2.py) is a box whose code set is empty.
C11_EmptyBoxInNoBucket ==
    call.op = "encerrar" =>
        /\ \A i \in 1..Len(call.ret.boxes_found) : call.ret.boxes_found[i].codes # <<>>
        /\ \A i \in 1..Len(call.ret.boxes_partial) :
              call.ret.boxes_partial[i].codes_present \o
              call.ret.boxes_partial[i].codes_missing # <<>>
        /\ \A i \in 1..Len(call.ret.boxes_missing) :
              call.ret.boxes_missing[i].codes # <<>>

\* the union of the code sets of the boxes read_registered_boxes returns
BoxCodeUnion(f) ==
    LET boxes == ReadRegisteredBoxes(f)
    IN  UNION {boxes[i].codes : i \in 1..Len(boxes)}

\* C12: in the report of ronda_encerrar (app2.py), with found the payloads of
\* the ledger and U the union of the code sets of the boxes: total_found =
\* |found|, total_registered = |U|, only_found = found \ U, only_registered =
\* U \ found, each list without repetition; only_found and only_registered
\* are disjoint and |only_found| + |common| = total_found.
C12_ReportTotals ==
    call.op = "encerrar" =>
        LET found == Keys(codigos.rows)
            U == BoxCodeUnion(caixas)
            r == call.ret
        IN  /\ r.total_found = Cardinality(found)
            /\ r.total_registered = Cardinality(U)
            /\ Elems(r.only_found) = found \ U
            /\ Elems(r.only_registered) = U \ found
            /\ Len(r.only_found) = Cardinality(found \ U)
            /\ Len(r.only_registered) = Cardinality(U \ found)
            /\ Elems(r.only_found) \cap Elems(r.only_registered) = {}
            /\ Len(r.only_found) + Len(r.common) = r.total_found

\* a report with codes only found, codes only registered and common codes
C12_Witness ==
    /\ call.op = "encerrar"
    /\ call.ret.only_found # <<>>
    /\ call.ret.only_registered # <<>>
    /\ call.ret.common # <<>>
    /\ Len(caixas.rows) = 2

\* the codes of box i that no other box has
OnlyIn(boxes, i) ==
    {c \in boxes[i].codes : \A j \in 1..Len(boxes) : j # i => c \notin boxes[j].codes}

\* no box but i changes its bucket when found becomes found2
OthersUnchanged(boxes, i, found, found2) ==
    \A j \in 1..Len(boxes) :
        j # i => Bucket(boxes[j].codes, found2) = Bucket(boxes[j].codes, found)

\* C13 as stated: for every box that is complete, removing from found one code
\* that only this box has makes it partial, removing all its codes makes it
\* missing, and no other box changes its bucket in either case.
C13_RemovalMovesBox ==
    LET found == ReadCodigosEncontrados(codigos)
        boxes == ReadRegisteredBoxes(caixas)
    IN  \A i \in 1..Len(boxes) :
          Bucket(boxes[i].codes, found) = "found" =>
            /\ \A c \in OnlyIn(boxes, i) :
                  /\ Bucket(boxes[i].codes, found \ {c}) = "partial"
                  /\ OthersUnchanged(boxes, i, found, found \ {c})
            /\ Bucket(boxes[i].codes, found \ boxes[i].codes) = "missing"
            /\ OthersUnchanged(boxes, i, found, found \ boxes[i].codes)

\* C13, amended: for every box that is complete, removing from found one code
\* that only this box has makes it partial if the box has two or more codes
\* (missing if that was its only code) and changes no other box; removing all
\* its codes makes it missing and changes no other box that shares no code
\* with it.
C13_RemovalMovesBoxAmended ==
    LET found == ReadCodigosEncontrados(codigos)
        boxes == ReadRegisteredBoxes(caixas)
    IN  \A i \in 1..Len(boxes) :
          Bucket(boxes[i].codes, found) = "found" =>
            /\ \A c \in OnlyIn(boxes, i) :
                  /\ Bucket(boxes[i].codes, found \ {c}) =
                        IF Cardinality(boxes[i].codes) >= 2 THEN "partial" ELSE "missing"
                  /\ OthersUnchanged(boxes, i, found, found \ {c})
            /\ Bucket(boxes[i].codes, found \ boxes[i].codes) = "missing"
            /\ \A j \in 1..Len(boxes) :
                  (j # i /\ boxes[j].codes \cap boxes[i].codes = {})
                     => Bucket(boxes[j].codes, found \ boxes[i].codes) =
                          Bucket(boxes[j].codes, found)

\* the report shows two complete boxes that share a code, each with a code of
\* its own
C13_Witness ==
    /\ call.op = "encerrar"
    /\ Len(call.ret.boxes_found) = 2
    /\ LET boxes == ReadRegisteredBoxes(caixas)
       IN  /\ boxes[1].codes \cap boxes[2].codes # {}
           /\ OnlyIn(boxes, 1) # {}
           /\ OnlyIn(boxes, 2) # {}

(***************************************************************************)
(* SpecCounter: sequential calls of register_caixa (app2.py) in which the  *)
(* read of contagem_caixas.txt may raise (the except clauses of lines      *)
(* 371-376 and 394-399 set total = 0).                                     *)
(***************************************************************************)
\* 'total = int(f.read().strip() or "0")' inside try / except
ReadContagemIO(c, readable) == IF readable THEN ReadContagem(c) ELSE 0

\* register_caixa with the outcome of the counter read as an input
RegisterCaixaIO(f, c, qr_codes, barcodes, readable) ==
    IF CaixaExists(f, Sorted(qr_codes), Sorted(barcodes))
    THEN [caixas |-> f, contagem |-> c,
          ret |-> [isNew |-> FALSE, total |-> ReadContagemIO(c, readable)]]
    ELSE [caixas |-> RegAppend(f, qr_codes, barcodes),
          contagem |-> IntCount(ReadContagemIO(c, readable) + 1),
          ret |-> [isNew |-> TRUE, total |-> ReadContagemIO(c, readable) + 1]]

\* the boxes shown to register_caixa: three boxes of two codes
CounterPairs ==
    { << <<PA>>, <<PB>> >>, << <<PA>>, <<PC>> >>, << <<PB>>, <<PC>> >> }

RegisterIO ==
    \E p \in CounterPairs, readable \in BOOLEAN :
        LET r == RegisterCaixaIO(caixas, contagem, p[1], p[2], readable)
        IN  /\ Len(r.caixas.rows) <= MaxBoxes + 1
            /\ caixas' = r.caixas
            /\ contagem' = r.contagem
            /\ call' = [op |-> "register", qr |-> p[1], bc |-> p[2], ret |-> r.ret,
                        readable |-> readable]
            /\ UNCHANGED <<codigos, captureVars, uploader, lockVars>>

NextCounter == RegisterIO

SpecCounter == InitRegistry /\ [][NextCounter]_vars

\* C14: no register_caixa call lowers the number stored in
\* contagem_caixas.txt, whether the call registers a box, finds it
\* registered, or could not read the counter.
C14_CounterNeverDecreases ==
    [][ReadContagem(contagem') >= ReadContagem(contagem)]_vars

(***************************************************************************)
(* app.py: its caixa_exists, register_caixa and analyze_inventory_report.  *)
(***************************************************************************)
\* the loop of app.py's caixa_exists: 'qr_list == nova_qrs and bc_list ==
\* nova_bcs' reads nova_bcs, a name the function never binds, as soon as the
\* QR tuples are equal
RECURSIVE ScanRows1(_, _)
ScanRows1(rows, nova_qrs) ==
    IF rows = <<>> THEN "False"
    ELSE IF RowQrTuple(Head(rows)) = nova_qrs THEN "NameError"
    ELSE ScanRows1(Tail(rows), nova_qrs)

\* caixa_exists of app.py: the except clause logs and falls to 'return False'
CaixaExists1(f, qr_codes, barcodes) ==
    /\ f.exists
    /\ ScanRows1(f.rows, Sorted(qr_codes)) = "True"

\* module-level register_caixa of app.py
RegisterCaixa1(f, c, qr_codes, barcodes) ==
    IF CaixaExists1(f, Sorted(qr_codes), Sorted(barcodes))
    THEN [caixas |-> f, contagem |-> c,
          ret |-> [isNew |-> FALSE, total |-> ReadContagem(c)]]
    ELSE [caixas |-> RegAppend(f, qr_codes, barcodes),
          contagem |-> IntCount(ReadContagem(c) + 1),
          ret |-> [isNew |-> TRUE, total |-> ReadContagem(c) + 1]]

\* box.get(key, ''): the dicts of read_registered_boxes have the keys qrs,
\* bcs, codes, raw_qrs and raw_bcs
BoxGet(box, key) == IF key \in DOMAIN box THEN box[key] ELSE EmptyStr

\* qr_codes + barcodes of a box as analyze_inventory_report computes them
BoxCodes1(box) ==
    LET qr_codes == IF BoxGet(box, "QRCodes") # EmptyStr
                    THEN Split(BoxGet(box, "QRCodes")) ELSE <<>>
        barcodes == IF BoxGet(box, "Barcodes") # EmptyStr
                    THEN Split(BoxGet(box, "Barcodes")) ELSE <<>>
    IN  [qrs |-> qr_codes, bcs |-> barcodes, codes |-> NonEmpty(qr_codes \o barcodes)]

\* the bucket of a box with codes; boxes without codes are skipped
Bucket1(box_codes, codes_found) ==
    LET found_in_box == SelectSeq(box_codes, LAMBDA c : c \in codes_found)
    IN  IF Len(found_in_box) = Len(box_codes) /\ Len(found_in_box) > 0 THEN "found"
        ELSE IF Len(found_in_box) > 0 THEN "partial"
        ELSE "missing"

\* analyze_inventory_report; only_found and only_registered are built by
\* iterating over a set, so the model keeps their contents, not an order
AnalyzeInventoryReport(codes_found, cx) ==
    LET registered_boxes == ReadRegisteredBoxes(cx)
        bxs == [i \in 1..Len(registered_boxes) |-> BoxCodes1(registered_boxes[i])]
        all_registered_codes ==
            UNION {Elems(bxs[i].qrs \o bxs[i].bcs) : i \in 1..Len(bxs)} \ {EmptyStr}
        withCodes == SelectSeq(bxs, LAMBDA b : b.codes # <<>>)
        In(bucket) == SelectSeq(withCodes, LAMBDA b : Bucket1(b.codes, codes_found) = bucket)
        bp == In("partial")
    IN  [total_found |-> Cardinality(codes_found),
         total_registered |-> Cardinality(all_registered_codes),
         boxes_found |-> In("found"),
         boxes_partial |-> [i \in 1..Len(bp) |->
             [qrs |-> bp[i].qrs, bcs |-> bp[i].bcs, codes |-> bp[i].codes,
              codes_present |-> SelectSeq(bp[i].codes, LAMBDA c : c \in codes_found),
              codes_missing |-> SelectSeq(bp[i].codes, LAMBDA c : c \notin codes_found)]],
         boxes_missing |-> In("missing"),
         only_found |-> codes_found \ all_registered_codes,
         only_registered |-> all_registered_codes \ codes_found]

(***************************************************************************)
(* SpecApp1: calls of app.py's register_caixa and save_unique_codes, and   *)
(* its requests BeginRound and EndRound, one after the other.              *)
(***************************************************************************)
\* the (qr list, barcode list) pairs of the images of RoundImages
App1Pairs == {<<QrCodesOf(img), BarcodesOf(img)>> : img \in RoundImages \ {<<>>}}

App1Register ==
    \E p \in App1Pairs :
        LET r == RegisterCaixa1(caixas, contagem, p[1], p[2])
        IN  /\ Len(r.caixas.rows) <= MaxBoxes
            /\ caixas' = r.caixas
            /\ contagem' = r.contagem
            /\ call' = [op |-> "register", qr |-> p[1], bc |-> p[2], ret |-> r.ret,
                        again |-> Again(p[1], p[2])]
            /\ UNCHANGED <<codigos, captureVars, uploader, lockVars>>

App1Save ==
    \E p \in App1Pairs :
        LET toAdd == SaveRead(codigos, p[1], p[2])
        IN  /\ codigos' = SaveWrite(codigos, toAdd)
            /\ call' = [op |-> "save", qr |-> p[1], bc |-> p[2], ret |-> NewList(toAdd)]
            /\ UNCHANGED <<caixas, contagem, captureVars, uploader, lockVars>>

App1Comecar ==
    /\ codigos' = ClearCodigos(codigos)
    /\ call' = [op |-> "comecar"]
    /\ UNCHANGED <<caixas, contagem, captureVars, uploader, lockVars>>

App1Encerrar ==
    /\ call' = [op |-> "encerrar",
                ret |-> AnalyzeInventoryReport(ReadCodigosEncontrados(codigos), caixas)]
    /\ UNCHANGED <<codigos, caixas, contagem, captureVars, uploader, lockVars>>

NextApp1 == App1Register \/ App1Save \/ App1Comecar \/ App1Encerrar

SpecApp1 == InitRegistry /\ [][NextApp1]_vars

\* C6: app.py's register_caixa called twice in a row with the same QR list
\* and the same barcode list returns isNew = false the second time, adds no
\* second row and leaves the counter unchanged.
C6_App1SecondRegisterIsNoOp ==
    [][(call.op = "register" /\ call'.op = "register"
        /\ SamePair(call.qr, call.bc, call'.qr, call'.bc))
       => (/\ call'.ret.isNew = FALSE
           /\ caixas' = caixas
           /\ contagem' = contagem)]_vars

\* the registry and the ledger of the example: boxes {qr:[a,b], bc:[]} and
\* {qr:[c], bc:[d]}, found {a, b, c}
ExampleState ==
    /\ caixas.rows = << NewRow(<<PA, PB>>, <<>>), NewRow(<<PC>>, <<PD>>) >>
    /\ ReadCodigosEncontrados(codigos) = {PA, PB, PC}

\* C10: for boxes [{qr:[a,b], bc:[]}, {qr:[c], bc:[d]}] and found {a,b,c} the
\* report of app.py's EndRound (analyze_inventory_report over the boxes of
\* read_registered_boxes) shows box 1 complete, box 2 partial with present [c]
\* and missing [d], no missing box, onlyFound empty and onlyRegistered [d].
C10_App1ReportContract ==
    (call.op = "encerrar" /\ ExampleState) =>
        LET r == call.ret
        IN  /\ Len(r.boxes_found) = 1
            /\ r.boxes_found[1].qrs = <<PA, PB>> /\ r.boxes_found[1].bcs = <<>>
            /\ Len(r.boxes_partial) = 1
            /\ r.boxes_partial[1].qrs = <<PC>> /\ r.boxes_partial[1].bcs = <<PD>>
            /\ r.boxes_partial[1].codes_present = <<PC>>
            /\ r.boxes_partial[1].codes_missing = <<PD>>
            /\ r.boxes_missing = <<>>
            /\ r.only_found = {}
            /\ r.only_registered = {PD}

\* EndRound of app.py has run on the example
C10_ExampleReached == call.op = "encerrar" /\ ExampleState

(***************************************************************************)
(* The capture worker (app2.py): camera_live_start, camera_live_stop,      *)
(* camera_live_poll and _capture_loop.                                     *)
(***************************************************************************)
\* what the probes of one negotiation find
Probes ==
    [opencv : BOOLEAN, http : BOOLEAN, snapshot : BOOLEAN, mjpeg : BOOLEAN]

\* chosen_mode of camera_live_start: "none" when ok stays False
ChosenMode(p) ==
    IF p.opencv THEN "opencv"
    ELSE IF p.http /\ p.snapshot THEN "snapshot"
    ELSE IF p.http /\ p.mjpeg THEN "mjpeg"
    ELSE "none"

\* a thread as threading.Thread(target=_capture_loop, ...).start() leaves it
NewThread(mode) ==
    [pc |-> "start", mode |-> mode, frame |-> <<>>, to_add |-> <<>>,
     total |-> 0, stopped |-> FALSE]

ThreadIds == 1..Len(threads)

\* _capture_thread.is_alive()
Alive(t) == threads[t].pc # "dead"

\* frame_codes: the non-empty payloads of the frame, each once, in decode order
RECURSIVE FrameCodes(_, _)
FrameCodes(acc, decoded) ==
    IF decoded = <<>> THEN acc
    ELSE IF Head(decoded).data # EmptyStr /\ Head(decoded).data \notin Elems(acc)
         THEN FrameCodes(Append(acc, Head(decoded).data), Tail(decoded))
         ELSE FrameCodes(acc, Tail(decoded))

\* the loop over new_list: a confirmation for every code not in _capture_seen
RECURSIVE CodeEvents(_, _, _, _)
CodeEvents(queue, seen, new_list, qr_codes) ==
    IF new_list = <<>> THEN [queue |-> queue, seen |-> seen]
    ELSE IF Head(new_list) \in seen
         THEN CodeEvents(queue, seen, Tail(new_list), qr_codes)
         ELSE CodeEvents(
                Append(queue, [caixa |-> FALSE, codigo |-> Head(new_list),
                               tipo |-> IF Head(new_list) \in Elems(qr_codes)
                                        THEN QR ELSE BARCODE]),
                seen \cup {Head(new_list)}, Tail(new_list), qr_codes)

\* unique_frame_codes, qr_for_box and bc_for_box
UniqueFrameCodes(decoded) == SortedOfSet(Elems(FrameCodes(<<>>, decoded)))
QrForBox(decoded) ==
    SelectSeq(UniqueFrameCodes(decoded), LAMBDA c : c \in Elems(QrCodesOf(decoded)))
BcForBox(decoded) ==
    SelectSeq(UniqueFrameCodes(decoded), LAMBDA c : c \in Elems(BarcodesOf(decoded)))

BoxEvent(decoded) == [caixa |-> TRUE, codes |-> UniqueFrameCodes(decoded)]

\* one iteration of _capture_loop from the decoded frame on, run without
\* interruption
ProcessFrame(cod, cx, ct, seen, queue, decoded) ==
    LET frame_codes == FrameCodes(<<>>, decoded)
        qr_codes == QrCodesOf(decoded)
        barcodes == BarcodesOf(decoded)
        to_add == SaveRead(cod, qr_codes, barcodes)
        ev == CodeEvents(queue, seen, NewList(to_add), qr_codes)
        reg == RegisterCaixa(cx, ct, QrForBox(decoded), BcForBox(decoded))
    IN  IF frame_codes = <<>>
        THEN [codigos |-> cod, caixas |-> cx, contagem |-> ct, seen |-> seen,
              queue |-> queue]
        ELSE IF RegistersBox(UniqueFrameCodes(decoded))
        THEN [codigos |-> SaveWrite(cod, to_add), caixas |-> reg.caixas,
              contagem |-> reg.contagem, seen |-> ev.seen,
              queue |-> IF reg.ret.isNew THEN Append(ev.queue, BoxEvent(decoded))
                        ELSE ev.queue]
        ELSE [codigos |-> SaveWrite(cod, to_add), caixas |-> cx, contagem |-> ct,
              seen |-> ev.seen, queue |-> ev.queue]

\* the frames the camera shows: nothing, one code
CapFrames ==
    { << >>,
      << Det(PA, QRCODE) >> }

\* camera_live_start, first 'with _capture_lock': a loop is alive
StartExisting(s) ==
    /\ starts[s].pc = "idle"
    /\ capture_lock = "free"
    /\ capture_thread # 0 /\ Alive(capture_thread)
    /\ call' = [op |-> "start", id |-> s, ok |-> TRUE, mode |-> "existing"]
    /\ UNCHANGED <<storeVars, captureVars, uploader, lockVars>>

\* camera_live_start, first 'with _capture_lock': no loop is alive
StartCheck(s) ==
    /\ starts[s].pc = "idle"
    /\ capture_lock = "free"
    /\ ~(capture_thread # 0 /\ Alive(capture_thread))
    /\ starts' = [starts EXCEPT ![s] = [pc |-> "negotiate", mode |-> "none"]]
    /\ UNCHANGED <<storeVars, call, capture_thread, capture_lock, stop_event,
                   capture_seen, capture_queue, last_frame_jpeg, threads, stopper,
                   uploader, lockVars>>

\* camera_live_start, the probes, outside every lock: a mode is chosen
NegotiateOkIn(s, probes) ==
    /\ starts[s].pc = "negotiate"
    /\ \E p \in probes :
          /\ ChosenMode(p) # "none"
          /\ starts' = [starts EXCEPT ![s] = [pc |-> "launch", mode |-> ChosenMode(p)]]
    /\ UNCHANGED <<storeVars, call, capture_thread, capture_lock, stop_event,
                   capture_seen, capture_queue, last_frame_jpeg, threads, stopper,
                   uploader, lockVars>>

NegotiateOk(s) == NegotiateOkIn(s, Probes)

\* a failure that resets the worker as a launch does
NegotiateFailResets(s) ==
    /\ starts[s].pc = "negotiate"
    /\ \E p \in Probes : ChosenMode(p) = "none"
    /\ starts' = [starts EXCEPT ![s] = [pc |-> "idle", mode |-> "none"]]
    /\ call' = [op |-> "start", id |-> s, ok |-> FALSE, mode |-> "none"]
    /\ stop_event' = FALSE
    /\ capture_seen' = {}
    /\ capture_queue' = <<>>
    /\ UNCHANGED <<storeVars, capture_thread, capture_lock, last_frame_jpeg,
                   threads, stopper, uploader, lockVars>>

\* camera_live_start, the probes: every strategy failed, 502
NegotiateFail(s) ==
    /\ starts[s].pc = "negotiate"
    /\ \E p \in Probes : ChosenMode(p) = "none"
    /\ starts' = [starts EXCEPT ![s] = [pc |-> "idle", mode |-> "none"]]
    /\ call' = [op |-> "start", id |-> s, ok |-> FALSE, mode |-> "none"]
    /\ UNCHANGED <<storeVars, capture_thread, capture_lock, stop_event,
                   capture_seen, capture_queue, last_frame_jpeg, threads, stopper,
                   uploader, lockVars>>

\* camera_live_start, second 'with _capture_lock': the thread is started
Launch(s) ==
    /\ starts[s].pc = "launch"
    /\ capture_lock = "free"
    /\ Len(threads) < MaxThreads
    /\ stop_event' = FALSE
    /\ capture_seen' = {}
    /\ capture_queue' = <<>>
    /\ threads' = Append(threads, NewThread(starts[s].mode))
    /\ capture_thread' = Len(threads) + 1
    /\ starts' = [starts EXCEPT ![s] = [pc |-> "idle", mode |-> "none"]]
    /\ call' = [op |-> "start", id |-> s, ok |-> TRUE, mode |-> starts[s].mode]
    /\ UNCHANGED <<storeVars, capture_lock, last_frame_jpeg, stopper, uploader, lockVars>>

\* camera_live_stop: no loop is alive
StopNoop ==
    /\ stopper.pc = "idle"
    /\ capture_lock = "free"
    /\ ~(capture_thread # 0 /\ Alive(capture_thread))
    /\ call' = [op |-> "stop", ok |-> TRUE, msg |-> "nenhuma captura em execucao"]
    /\ UNCHANGED <<storeVars, captureVars, uploader, lockVars>>

\* camera_live_stop: takes _capture_lock, sets the event and starts to join
StopBegin ==
    /\ stopper.pc = "idle"
    /\ capture_lock = "free"
    /\ capture_thread # 0 /\ Alive(capture_thread)
    /\ capture_lock' = "stop"
    /\ stop_event' = TRUE
    /\ stopper' = [pc |-> "join", target |-> capture_thread]
    /\ UNCHANGED <<storeVars, call, capture_thread, capture_seen, capture_queue,
                   last_frame_jpeg, threads, starts, uploader, lockVars>>

\* the rest of camera_live_stop once join() has returned
StopFinish ==
    /\ capture_thread' = 0
    /\ last_frame_jpeg' = 0
    /\ capture_lock' = "free"
    /\ threads' = [threads EXCEPT ![stopper.target].stopped = TRUE]
    /\ stopper' = [pc |-> "idle", target |-> 0]
    /\ call' = [op |-> "stop", ok |-> TRUE, msg |-> "captura parada"]
    /\ UNCHANGED <<storeVars, stop_event, capture_seen, capture_queue, starts,
                   uploader, lockVars>>

\* join(timeout=5.0) returns because the loop has ended
StopJoined ==
    /\ stopper.pc = "join"
    /\ ~Alive(stopper.target)
    /\ StopFinish

\* join(timeout=5.0) returns after 5 s while the loop is still inside a frame
\* read (cap.read() has no timeout, the MJPEG read has one of 10 s)
StopJoinTimeout ==
    /\ stopper.pc = "join"
    /\ threads[stopper.target].pc = "read"
    /\ StopFinish

\* a poll that returns the queue and leaves it as it is
PollKeeps ==
    /\ call' = [op |-> "poll", ret |-> capture_queue]
    /\ UNCHANGED <<storeVars, captureVars, uploader, lockVars>>

\* a poll that returns the queue last event first
PollReversed ==
    /\ call' = [op |-> "poll",
                ret |-> [i \in 1..Len(capture_queue) |->
                            capture_queue[Len(capture_queue) + 1 - i]]]
    /\ capture_queue' = <<>>
    /\ UNCHANGED <<storeVars, capture_thread, capture_lock, stop_event,
                   capture_seen, last_frame_jpeg, threads, starts, stopper, uploader, lockVars>>

\* camera_live_poll
Poll ==
    /\ call' = [op |-> "poll", ret |-> capture_queue]
    /\ capture_queue' = <<>>
    /\ UNCHANGED <<storeVars, capture_thread, capture_lock, stop_event,
                   capture_seen, last_frame_jpeg, threads, starts, stopper, uploader, lockVars>>

SetPc(t, pc) == [threads EXCEPT ![t].pc = pc]

\* _capture_loop before the while: cv2.VideoCapture in mode 'opencv' may not
\* open, and the thread returns
ThreadOpen(t) ==
    /\ threads[t].pc = "start"
    /\ \E opened \in BOOLEAN :
          /\ (threads[t].mode # "opencv") => opened
          /\ threads' = SetPc(t, IF opened THEN "loop" ELSE "dead")
    /\ UNCHANGED <<storeVars, call, capture_thread, capture_lock, stop_event,
                   capture_seen, capture_queue, last_frame_jpeg, starts, stopper,
                   uploader, lockVars>>

\* 'while not _capture_stop_event.is_set()'
ThreadCheck(t) ==
    /\ threads[t].pc = "loop"
    /\ threads' = SetPc(t, IF stop_event THEN "dead" ELSE "read")
    /\ UNCHANGED <<storeVars, call, capture_thread, capture_lock, stop_event,
                   capture_seen, capture_queue, last_frame_jpeg, starts, stopper,
                   uploader, lockVars>>

\* the frame read fails: sleep(0.5) and continue
ThreadReadFail(t) ==
    /\ threads[t].pc = "read"
    /\ threads' = SetPc(t, "loop")
    /\ UNCHANGED <<storeVars, call, capture_thread, capture_lock, stop_event,
                   capture_seen, capture_queue, last_frame_jpeg, starts, stopper,
                   uploader, lockVars>>

\* next(mjpeg_gen) raises StopIteration: break
ThreadMjpegEnd(t) ==
    /\ threads[t].pc = "read"
    /\ threads[t].mode = "mjpeg"
    /\ threads' = SetPc(t, "dead")
    /\ UNCHANGED <<storeVars, call, capture_thread, capture_lock, stop_event,
                   capture_seen, capture_queue, last_frame_jpeg, starts, stopper,
                   uploader, lockVars>>

\* a frame is read, published as the preview (unless imencode fails) and
\* processed
ThreadFrameIn(t, frames) ==
    /\ threads[t].pc = "read"
    /\ \E decoded \in frames, ok_enc \in BOOLEAN :
          LET r == ProcessFrame(codigos, caixas, contagem, capture_seen,
                                capture_queue, decoded)
          IN  /\ Len(r.caixas.rows) <= MaxBoxes
              /\ last_frame_jpeg' = IF ok_enc THEN t ELSE last_frame_jpeg
              /\ codigos' = r.codigos
              /\ caixas' = r.caixas
              /\ contagem' = r.contagem
              /\ capture_seen' = r.seen
              /\ capture_queue' = r.queue
    /\ threads' = SetPc(t, "loop")
    /\ UNCHANGED <<call, capture_thread, capture_lock, stop_event, starts, stopper,
                   uploader, lockVars>>

ThreadFrame(t) == ThreadFrameIn(t, CapFrames)

(***************************************************************************)
(* Spec: the requests of app2.py and the capture loops.  StartCapture and  *)
(* StopCapture take the steps their locks delimit; a loop iteration takes  *)
(* the steps check, read and process.                                      *)
(***************************************************************************)
Init == InitRegistry

Next ==
    \/ \E s \in StartIds :
          StartExisting(s) \/ StartCheck(s) \/ NegotiateOk(s) \/ NegotiateFail(s)
          \/ Launch(s)
    \/ StopNoop \/ StopBegin \/ StopJoined \/ StopJoinTimeout
    \/ Poll
    \/ \E t \in ThreadIds : ThreadOpen(t)
    \/ \E t \in ThreadIds : ThreadCheck(t)
    \/ \E t \in ThreadIds : ThreadReadFail(t)
    \/ \E t \in ThreadIds : ThreadMjpegEnd(t)
    \/ \E t \in ThreadIds : ThreadFrame(t)

Spec == Init /\ [][Next]_vars

\* the loops that are alive
AliveThreads == {t \in ThreadIds : Alive(t)}

\* C1: two StartCapture requests that overlap never result in two capture
\* loops: at most one _capture_loop thread is alive in every reachable state.
C1_AtMostOneLoop == Cardinality(AliveThreads) <= 1

\* C2: StopCapture followed by StartCapture: for a loop t that StopCapture
\* has stopped and a loop u started afterwards, the preview never holds a
\* frame published by t, and t has ended once u has opened its frame source.
C2_NoStaleLoop ==
    \A t, u \in ThreadIds :
        (threads[t].stopped /\ u > t)
           => /\ last_frame_jpeg # t
              /\ (threads[u].pc \notin {"start", "dead"}) => ~Alive(t)

\* C19: a camera_live_start request that arrives while a capture loop is
\* alive launches nothing (it does not go on to negotiate) and answers ok
\* without touching the stop event, the seen set, the queue, the preview or
\* the threads; a camera_live_stop request that arrives while no loop is alive
\* answers ok and changes nothing else.
C19_IdempotentStartStop ==
    [][/\ AliveThreads # {} =>
             \A s \in StartIds :
                 ~(starts[s].pc = "idle" /\ starts'[s].pc = "negotiate")
       /\ (call' # call /\ call'.op = "start" /\ call'.mode = "existing") =>
             /\ call'.ok
             /\ UNCHANGED <<storeVars, captureVars, uploader, lockVars>>
       /\ (call' # call /\ AliveThreads = {} /\ stopper.pc = "idle"
             /\ call'.op = "stop") =>
             /\ call'.ok
             /\ UNCHANGED <<storeVars, captureVars, uploader, lockVars>>]_vars

\* C22: when every probe of a negotiation fails, camera_live_start answers
\* ok = FALSE for that request, launches no loop and leaves the files, the
\* thread handle, the threads, the stop event, the seen set, the queue and the
\* preview as they were; the request is over, so a later one starts afresh.
C22_FailedNegotiationLeavesIdle ==
    [][\A s \in StartIds :
          (starts[s].pc = "negotiate" /\ starts'[s].pc = "idle") =>
              /\ call' = [op |-> "start", id |-> s, ok |-> FALSE, mode |-> "none"]
              /\ UNCHANGED <<storeVars, capture_thread, capture_lock, stop_event,
                             capture_seen, capture_queue, last_frame_jpeg,
                             threads, stopper>>]_vars

\* a negotiation has failed after a capture that saw a code was stopped
C22_Witness ==
    /\ call.op = "start" /\ ~call.ok
    /\ stop_event
    /\ capture_seen # {}
    /\ capture_thread = 0

\* C23: once camera_live_stop has returned for a request made while a loop
\* was running, and until a later camera_live_start launches a loop (that is,
\* while the thread handle is None), no capture loop is alive and the
\* published preview is empty.
C23_StoppedMeansIdleAndNoPreview ==
    capture_thread = 0 => (AliveThreads = {} /\ last_frame_jpeg = 0)

\* C29: once camera_live_start has launched a loop, the loop its handle names
\* is alive for as long as no camera_live_stop has set the stop event: the
\* loop never ends on its own.
C29_LoopRunsUntilStopped ==
    (capture_thread # 0 /\ ~stop_event) => Alive(capture_thread)

\* C30: a frame read that fails, in any mode, never ends the loop: a thread
\* that is reading a frame is never dead after its next step.
C30_FailedReadNeverEndsLoop ==
    [][\A t \in ThreadIds : threads[t].pc = "read" => threads'[t].pc # "dead"]_vars

(***************************************************************************)
(* SpecStart: every answer of camera_live_start, in app2.py and in app.py, *)
(* with the loops that the requests start and StopCapture ends.            *)
(***************************************************************************)
\* camera_live_start of app2.py: no camera_url in the request or in the
\* environment, 400 with the keys ok and msg
StartNoUrl(s) ==
    /\ starts[s].pc = "idle"
    /\ call' = [op |-> "start", id |-> s, ok |-> FALSE, mode |-> "none"]
    /\ UNCHANGED <<storeVars, captureVars, uploader, lockVars>>

\* camera_live_start of app.py: 400 without a camera_url, otherwise ok with
\* the keys ok and msg only
App1CameraLiveStart(s) ==
    /\ \E has_url \in BOOLEAN :
          call' = [op |-> "start", id |-> s, ok |-> has_url, mode |-> "none"]
    /\ UNCHANGED <<storeVars, captureVars, uploader, lockVars>>

NextStart ==
    \/ \E s \in StartIds : StartNoUrl(s)
    \/ \E s \in StartIds : StartExisting(s)
    \/ \E s \in StartIds : StartCheck(s)
    \/ \E s \in StartIds : NegotiateOk(s)
    \/ \E s \in StartIds : NegotiateFail(s)
    \/ \E s \in StartIds : Launch(s)
    \/ \E s \in StartIds : App1CameraLiveStart(s)
    \/ StopNoop \/ StopBegin \/ StopJoined \/ StopJoinTimeout
    \/ \E t \in ThreadIds : ThreadOpen(t)
    \/ \E t \in ThreadIds : ThreadCheck(t)
    \/ \E t \in ThreadIds : ThreadReadFail(t)

SpecStart == InitRegistry /\ [][NextStart]_vars

\* the three transports a frame source is negotiated over
Transports == {"opencv", "snapshot", "mjpeg"}

\* C20: every answer of camera_live_start with ok = TRUE carries a mode that
\* names one of the three transports, and every answer with ok = FALSE
\* carries no mode.
C20_StartResponseMode ==
    call.op = "start" =>
        /\ call.ok => call.mode \in Transports
        /\ ~call.ok => call.mode = "none"

(***************************************************************************)
(* SpecNegotiate: the probes of camera_live_start, one by one, for every   *)
(* locator and every outcome of every probe.                               *)
(***************************************************************************)
\* str.lower() on the characters a locator's scheme is written with
LowerChar(c) ==
    IF c = "H" THEN "h" ELSE IF c = "T" THEN "t" ELSE IF c = "P" THEN "p"
    ELSE IF c = "S" THEN "s" ELSE c

Lower(l) == [i \in 1..Len(l) |-> LowerChar(l[i])]

\* camera_url.lower().startswith('http')
StartsWithHttp(l) ==
    Len(l) >= 4 /\ SubSeq(Lower(l), 1, 4) = << "h", "t", "t", "p" >>

\* the locators of a request, up to the colon that ends the scheme
Locators ==
    { << "r", "t", "s", "p", ":" >>,
      << "h", "t", "t", "p", ":" >>,
      << "H", "T", "T", "P", "S", ":" >>,
      << "h", "t", "t", "p", "x", ":" >> }

\* snapshot_candidates: the locator, then the five suffixes
SnapshotCandidates ==
    << "url", "shot.jpg", "photo.jpg", "snapshot.jpg", "img.jpg", "video" >>

\* what one request finds: the backends cv2 has, and for every probe whether
\* it would succeed if it were made
\* requests.get answers only for the schemes http and https; for every other
\* locator it raises, which both helpers catch
IsHttpLocator(l) ==
    Lower(l) \in { << "h", "t", "t", "p", ":" >>,
                   << "h", "t", "t", "p", "s", ":" >> }

NegotiationEnvs ==
    { e \in [url : Locators, has_ffmpeg : BOOLEAN, has_gstreamer : BOOLEAN,
             ocv : [{"ffmpeg", "gstreamer", "generic"} -> BOOLEAN],
             snap : [1..Len(SnapshotCandidates) -> BOOLEAN], mjpeg : BOOLEAN] :
        ~IsHttpLocator(e.url) =>
            /\ ~e.mjpeg
            /\ \A i \in 1..Len(SnapshotCandidates) : ~e.snap[i] }

\* the _try_opencv_capture_once calls, in order: the attempts and ok
OpenCvProbes(e) ==
    LET a1 == IF e.has_ffmpeg THEN << "ffmpeg" >> ELSE << >>
        ok1 == e.has_ffmpeg /\ e.ocv["ffmpeg"]
        a2 == IF ~ok1 /\ e.has_gstreamer THEN << "gstreamer" >> ELSE << >>
        ok2 == ok1 \/ (e.has_gstreamer /\ e.ocv["gstreamer"])
        a3 == IF ~ok2 THEN << "generic" >> ELSE << >>
        ok3 == ok2 \/ e.ocv["generic"]
    IN  [attempts |-> a1 \o a2 \o a3, ok |-> ok3]

\* for s in snapshot_candidates: ... break: the attempts and snap_ok
RECURSIVE SnapshotProbes(_, _, _)
SnapshotProbes(e, i, acc) ==
    IF i > Len(SnapshotCandidates) THEN [attempts |-> acc, ok |-> FALSE]
    ELSE IF e.snap[i]
         THEN [attempts |-> Append(acc, SnapshotCandidates[i]), ok |-> TRUE]
         ELSE SnapshotProbes(e, i + 1, Append(acc, SnapshotCandidates[i]))

\* camera_live_start, lines 746-806: the probes made, in order, and
\* chosen_mode ("none" when ok stays False)
Negotiate(e) ==
    LET o == OpenCvProbes(e)
        h == SnapshotProbes(e, 1, << >>)
    IN  IF o.ok THEN [attempts |-> o.attempts, mode |-> "opencv"]
        ELSE IF ~StartsWithHttp(e.url)
             THEN [attempts |-> o.attempts, mode |-> "none"]
        ELSE IF h.ok
             THEN [attempts |-> o.attempts \o h.attempts, mode |-> "snapshot"]
        ELSE [attempts |-> o.attempts \o h.attempts \o << "mjpeg" >>,
              mode |-> IF e.mjpeg THEN "mjpeg" ELSE "none"]

\* one negotiation
NegotiateRequest ==
    /\ call = NoCall
    /\ \E e \in NegotiationEnvs :
          call' = [op |-> "negotiate", env |-> e, res |-> Negotiate(e)]
    /\ UNCHANGED <<storeVars, captureVars, uploader, lockVars>>

NextNegotiate == NegotiateRequest

SpecNegotiate == InitRegistry /\ [][NextNegotiate]_vars

OpenCvNames == {"ffmpeg", "gstreamer", "generic"}

\* the probes of a sequence of attempts
Attempted(a) == {a[i] : i \in 1..Len(a)}

\* the probes in a follow the order FFMPEG, GStreamer, generic, the snapshot
\* candidates in list order, MJPEG
ProbeRank(x) ==
    IF x = "ffmpeg" THEN 1 ELSE IF x = "gstreamer" THEN 2
    ELSE IF x = "generic" THEN 3 ELSE IF x = "mjpeg" THEN 10
    ELSE 3 + CHOOSE i \in 1..Len(SnapshotCandidates) : SnapshotCandidates[i] = x

\* the outcome of probe x in environment e
ProbeSucceeds(e, x) ==
    IF x \in OpenCvNames THEN e.ocv[x]
    ELSE IF x = "mjpeg" THEN e.mjpeg
    ELSE e.snap[ProbeRank(x) - 3]

\* the mode that a success of probe x selects
ModeOf(x) ==
    IF x \in OpenCvNames THEN "opencv"
    ELSE IF x = "mjpeg" THEN "mjpeg" ELSE "snapshot"

\* C21: the probes are made in the fixed order, the first success wins and
\* nothing is tried after it: the result is opencv when a pull-stream attempt
\* succeeds, otherwise (HTTP(S) locator only) snapshot when a candidate
\* succeeds, otherwise mjpeg when the stream yields an image; a locator that
\* is not HTTP(S) never reaches the snapshot and MJPEG probes.
C21_NegotiationOrder ==
    call.op = "negotiate" =>
        LET e == call.env
            a == call.res.attempts
        IN  /\ \A i, j \in 1..Len(a) : i < j => ProbeRank(a[i]) < ProbeRank(a[j])
            /\ \A i \in 1..Len(a) :
                  ProbeSucceeds(e, a[i]) =>
                      i = Len(a) /\ call.res.mode = ModeOf(a[i])
            /\ call.res.mode # "none" =>
                  Len(a) > 0 /\ ProbeSucceeds(e, a[Len(a)])
            /\ ~IsHttpLocator(e.url) => Attempted(a) \subseteq OpenCvNames

(***************************************************************************)
(* SpecStore: one capture loop and one upload_image request at the         *)
(* granularity of their file accesses, with ronda_comecar.  Each read and   *)
(* each write of a store is one step.                                      *)
(***************************************************************************)
\* the frames the camera shows and the images that are submitted
StoreFrames ==
    { << >>,
      << Det(PA, QRCODE) >>,
      << Det(PA, QRCODE), Det(PB, CODE128) >> }

\* a capture that camera_live_start has started: its loop is at the while
RunningLoop ==
    /\ capture_thread = 1
    /\ capture_lock = "free"
    /\ stop_event = FALSE
    /\ capture_seen = {}
    /\ capture_queue = <<>>
    /\ last_frame_jpeg = 0
    /\ threads = << [NewThread("snapshot") EXCEPT !.pc = "loop"] >>
    /\ starts = [s \in StartIds |-> [pc |-> "idle", mode |-> "none"]]
    /\ stopper = [pc |-> "idle", target |-> 0]
    /\ uploader = IdleUploader
    /\ queue_lock = "free"
    /\ last_frame_lock = "free"
    /\ poller = "idle"
    /\ viewer = "idle"

\* the state after a camera_live_start that chose the snapshot mode, once the
\* thread has entered its loop
InitStore ==
    /\ codigos = NoFile
    /\ caixas = NoFile
    /\ contagem = NoCount
    /\ call = [op |-> "start", id |-> "s1", ok |-> TRUE, mode |-> "snapshot"]
    /\ RunningLoop

\* the iteration ends: its locals are gone, the thread is back at the while
EndIteration(t) ==
    [threads EXCEPT ![t] = [@ EXCEPT !.pc = "loop", !.frame = <<>>,
                                     !.to_add = <<>>, !.total = 0]]

loopFrame == <<capture_thread, capture_lock, stop_event, starts, stopper, uploader, lockVars>>

\* the loop reads and decodes a frame; a frame without codes ends the iteration
FrameRead(t) ==
    /\ threads[t].pc = "read"
    /\ \E decoded \in StoreFrames, ok_enc \in BOOLEAN :
          /\ last_frame_jpeg' = IF ok_enc THEN t ELSE last_frame_jpeg
          /\ threads' = IF FrameCodes(<<>>, decoded) = <<>>
                         THEN EndIteration(t)
                         ELSE [threads EXCEPT ![t] =
                                 [@ EXCEPT !.frame = decoded, !.pc = "save"]]
    /\ UNCHANGED <<storeVars, call, capture_seen, capture_queue, loopFrame>>

\* save_unique_codes in the loop: load_existing_codes and to_add
LoopSave(t) ==
    /\ threads[t].pc = "save"
    /\ threads' = [threads EXCEPT ![t] =
          [@ EXCEPT !.pc = "append",
                    !.to_add = SaveRead(codigos, QrCodesOf(threads[t].frame),
                                        BarcodesOf(threads[t].frame))]]
    /\ UNCHANGED <<storeVars, call, capture_seen, capture_queue, last_frame_jpeg,
                   loopFrame>>

\* save_unique_codes in the loop: the append of to_add
LoopAppend(t) ==
    /\ threads[t].pc = "append"
    /\ codigos' = SaveWrite(codigos, threads[t].to_add)
    /\ threads' = SetPc(t, "enqueue")
    /\ UNCHANGED <<caixas, contagem, call, capture_seen, capture_queue,
                   last_frame_jpeg, loopFrame>>

\* one turn of 'for c in new_list': the confirmation of one new code
LoopEnqueue(t) ==
    /\ threads[t].pc = "enqueue"
    /\ threads[t].to_add # <<>>
    /\ LET ev == CodeEvents(capture_queue, capture_seen,
                            NewList(<<Head(threads[t].to_add)>>),
                            QrCodesOf(threads[t].frame))
       IN  /\ capture_queue' = ev.queue
           /\ capture_seen' = ev.seen
    /\ threads' = [threads EXCEPT ![t].to_add = Tail(@)]
    /\ UNCHANGED <<storeVars, call, last_frame_jpeg, loopFrame>>

\* 'if len(unique_frame_codes) >= 2' and, in register_caixa, caixa_exists
LoopBoxCheck(t) ==
    /\ threads[t].pc = "enqueue"
    /\ threads[t].to_add = <<>>
    /\ threads' =
          IF /\ RegistersBox(UniqueFrameCodes(threads[t].frame))
             /\ ~CaixaExists(caixas, Sorted(QrForBox(threads[t].frame)),
                             Sorted(BcForBox(threads[t].frame)))
          THEN SetPc(t, "regapp") ELSE EndIteration(t)
    /\ UNCHANGED <<storeVars, call, capture_seen, capture_queue, last_frame_jpeg,
                   loopFrame>>

\* register_caixa in the loop: the append of the row
LoopRegAppend(t) ==
    /\ threads[t].pc = "regapp"
    /\ caixas' = RegAppend(caixas, QrForBox(threads[t].frame),
                           BcForBox(threads[t].frame))
    /\ threads' = SetPc(t, "cntrd")
    /\ UNCHANGED <<codigos, contagem, call, capture_seen, capture_queue,
                   last_frame_jpeg, loopFrame>>

\* register_caixa in the loop: the read of the counter
LoopCountRead(t) ==
    /\ threads[t].pc = "cntrd"
    /\ threads' = [threads EXCEPT ![t] =
          [@ EXCEPT !.pc = "cntwr", !.total = ReadContagem(contagem)]]
    /\ UNCHANGED <<storeVars, call, capture_seen, capture_queue, last_frame_jpeg,
                   loopFrame>>

\* register_caixa in the loop: the write of the counter
LoopCountWrite(t) ==
    /\ threads[t].pc = "cntwr"
    /\ contagem' = IntCount(threads[t].total + 1)
    /\ threads' = SetPc(t, "boxev")
    /\ UNCHANGED <<codigos, caixas, call, capture_seen, capture_queue,
                   last_frame_jpeg, loopFrame>>

\* 'if foi_reg': the box event
LoopBoxEvent(t) ==
    /\ threads[t].pc = "boxev"
    /\ capture_queue' = Append(capture_queue, BoxEvent(threads[t].frame))
    /\ threads' = EndIteration(t)
    /\ UNCHANGED <<storeVars, call, capture_seen, last_frame_jpeg, loopFrame>>

\* todos_codigos of the image the request holds
TodosCodigos(img) == QrCodesOf(img) \o BarcodesOf(img)

UploadReply(img, registered, total) ==
    [op |-> "upload", img |-> img,
     ret |-> [error |-> FALSE, registered |-> registered, total_caixas |-> total]]

\* upload_image: the image is decoded; without codes the request ends
UpBegin ==
    /\ uploader.pc = "idle"
    /\ \E img \in StoreFrames :
          IF TodosCodigos(img) = <<>>
          THEN /\ call' = [op |-> "upload", img |-> img,
                           ret |-> [error |-> TRUE, registered |-> FALSE,
                                    total_caixas |-> 0]]
               /\ UNCHANGED uploader
          ELSE /\ uploader' = [IdleUploader EXCEPT !.pc = "save", !.img = img]
               /\ UNCHANGED call
    /\ UNCHANGED <<storeVars, captureVars, lockVars>>

\* save_unique_codes in upload_image: load_existing_codes and to_add
UpSave ==
    /\ uploader.pc = "save"
    /\ uploader' = [uploader EXCEPT
          !.pc = "append",
          !.to_add = SaveRead(codigos, QrCodesOf(uploader.img),
                              BarcodesOf(uploader.img))]
    /\ UNCHANGED <<storeVars, call, captureVars, lockVars>>

\* save_unique_codes in upload_image: the append of to_add
UpAppend ==
    /\ uploader.pc = "append"
    /\ codigos' = SaveWrite(codigos, uploader.to_add)
    /\ uploader' = [uploader EXCEPT !.pc = "regchk"]
    /\ UNCHANGED <<caixas, contagem, call, captureVars, lockVars>>

\* 'if len(set(todos_codigos)) >= 2' and, in register_caixa, caixa_exists
UpBoxCheck ==
    /\ uploader.pc = "regchk"
    /\ IF ~RegistersBox(TodosCodigos(uploader.img))
       THEN /\ call' = UploadReply(uploader.img, FALSE, 0)
            /\ uploader' = IdleUploader
       ELSE IF CaixaExists(caixas, Sorted(QrCodesOf(uploader.img)),
                           Sorted(BarcodesOf(uploader.img)))
       THEN /\ call' = UploadReply(uploader.img, FALSE, ReadContagem(contagem))
            /\ uploader' = IdleUploader
       ELSE /\ uploader' = [uploader EXCEPT !.pc = "regapp"]
            /\ UNCHANGED call
    /\ UNCHANGED <<storeVars, captureVars, lockVars>>

\* register_caixa in upload_image: the append of the row
UpRegAppend ==
    /\ uploader.pc = "regapp"
    /\ caixas' = RegAppend(caixas, QrCodesOf(uploader.img), BarcodesOf(uploader.img))
    /\ uploader' = [uploader EXCEPT !.pc = "cntrd"]
    /\ UNCHANGED <<codigos, contagem, call, captureVars, lockVars>>

\* register_caixa in upload_image: the read of the counter
UpCountRead ==
    /\ uploader.pc = "cntrd"
    /\ uploader' = [uploader EXCEPT !.pc = "cntwr", !.total = ReadContagem(contagem)]
    /\ UNCHANGED <<storeVars, call, captureVars, lockVars>>

\* register_caixa in upload_image: the write of the counter, and the reply
UpCountWrite ==
    /\ uploader.pc = "cntwr"
    /\ contagem' = IntCount(uploader.total + 1)
    /\ call' = UploadReply(uploader.img, TRUE, uploader.total + 1)
    /\ uploader' = IdleUploader
    /\ UNCHANGED <<codigos, caixas, captureVars, lockVars>>

NextStore ==
    \/ \E t \in ThreadIds : ThreadCheck(t)
    \/ \E t \in ThreadIds : ThreadReadFail(t)
    \/ \E t \in ThreadIds : FrameRead(t)
    \/ \E t \in ThreadIds : LoopSave(t)
    \/ \E t \in ThreadIds : LoopAppend(t)
    \/ \E t \in ThreadIds : LoopEnqueue(t)
    \/ \E t \in ThreadIds : LoopBoxCheck(t)
    \/ \E t \in ThreadIds : LoopRegAppend(t)
    \/ \E t \in ThreadIds : LoopCountRead(t)
    \/ \E t \in ThreadIds : LoopCountWrite(t)
    \/ \E t \in ThreadIds : LoopBoxEvent(t)
    \/ UpBegin \/ UpSave \/ UpAppend \/ UpBoxCheck \/ UpRegAppend \/ UpCountRead
    \/ UpCountWrite
    \/ BeginRound

SpecStore == InitStore /\ [][NextStore]_vars

\* C4: the ledger holds no payload twice, also when the capture loop and
\* upload_image run save_unique_codes on the same payload at the same time.
C4_LedgerNoDuplicatesConcurrent == NoDuplicatePayload(codigos)

\* the distinct payloads of a detection batch
DistinctPayloads(decoded) == {decoded[i].data : i \in 1..Len(decoded)}

\* the loop t, the request, is inside register_caixa past caixa_exists
LoopRegisters(t) == threads[t].pc \in {"regapp", "cntrd", "cntwr", "boxev"}
UpRegisters == uploader.pc \in {"regapp", "cntrd", "cntwr"}

\* the payloads of a registry row
RowPayloads(row) == Elems(RowQrTuple(row)) \cup Elems(RowBcTuple(row))

C15_CounterCountsNewBoxes ==
    ((\A t \in ThreadIds : ~LoopRegisters(t)) /\ ~UpRegisters)
        => ReadContagem(contagem) = Len(caixas.rows)

\* C34: in every reachable state, also when the loop and upload_image
\* register the same pair of sets at the same time, the registry holds at
\* most one row per box: no two rows carry the same QR codes and the same
\* barcodes.
C34_OneRowPerBox ==
    \A i, j \in 1..Len(caixas.rows) : caixas.rows[i] = caixas.rows[j] => i = j

(***************************************************************************)
(* SpecOps: the requests of app2.py that write the worker or the stores,   *)
(* with one camera_live_start in service at a time: start, stop, the loop  *)
(* with frames that register a box, upload_image and ronda_comecar.        *)
(***************************************************************************)
OpsFrames ==
    { << >>,
      << Det(PA, QRCODE), Det(PB, CODE128) >> }

OpsImages ==
    { << Det(PA, QRCODE), Det(PC, CODE128) >> }

OpsThreadFrame(t) == ThreadFrameIn(t, OpsFrames)

\* a camera that serves snapshots over HTTP, or does not answer
OpsProbes == {p \in Probes : ~p.opencv /\ p.http /\ ~p.mjpeg}

OpsNegotiateOk(s) == NegotiateOkIn(s, OpsProbes)

OpsSubmitImage ==
    \E img \in OpsImages :
        LET r == UploadImage(codigos, caixas, contagem, img)
        IN  /\ Len(r.caixas.rows) <= MaxBoxes
            /\ codigos' = r.codigos
            /\ caixas' = r.caixas
            /\ contagem' = r.contagem
            /\ call' = [op |-> "upload", img |-> img, ret |-> r.ret]
            /\ UNCHANGED <<captureVars, uploader, lockVars>>

NextOps ==
    \/ StartCheck("s1") \/ OpsNegotiateOk("s1") \/ Launch("s1")
    \/ StopBegin \/ StopJoined \/ StopJoinTimeout
    \/ \E t \in ThreadIds : ThreadOpen(t)
    \/ \E t \in ThreadIds : ThreadCheck(t)
    \/ \E t \in ThreadIds : ThreadReadFail(t)
    \/ \E t \in ThreadIds : OpsThreadFrame(t)
    \/ OpsSubmitImage \/ BeginRound

SpecOps == InitRegistry /\ [][NextOps]_vars

\* l is a prefix of m
IsPrefix(l, m) == Len(l) <= Len(m) /\ SubSeq(m, 1, Len(l)) = l

\* C16: no step of any request or of the loop changes, reorders or removes a
\* row of caixas_registradas.csv: the rows before the step are a prefix of the
\* rows after it.
C16_RegistryAppendOnly == [][IsPrefix(caixas.rows, caixas'.rows)]_vars

\* two boxes are registered, the capture has been stopped and a round has
\* begun after that
C16_Witness ==
    /\ Len(caixas.rows) = 2
    /\ call.op = "comecar"
    /\ \E t \in ThreadIds : threads[t].stopped

(***************************************************************************)
(* SpecPoll: a running loop that enqueues detections, the polls that drain *)
(* the queue, and StopCapture and StartCapture (with negotiations that     *)
(* succeed and that fail) around them.                                     *)
(***************************************************************************)
\* the frames the camera shows: nothing, a box of two codes, one code
PollFrames ==
    { << >>,
      << Det(PA, QRCODE), Det(PB, CODE128) >>,
      << Det(PC, QRCODE) >> }

PollThreadFrame(t) == ThreadFrameIn(t, PollFrames)

NextPoll ==
    \/ Poll
    \/ StartCheck("s1") \/ OpsNegotiateOk("s1") \/ NegotiateFail("s1")
    \/ Launch("s1")
    \/ StopBegin \/ StopJoined \/ StopJoinTimeout
    \/ \E t \in ThreadIds : ThreadOpen(t)
    \/ \E t \in ThreadIds : ThreadCheck(t)
    \/ \E t \in ThreadIds : ThreadReadFail(t)
    \/ \E t \in ThreadIds : PollThreadFrame(t)

SpecPoll == InitStore /\ [][NextPoll]_vars

\* C24: a poll returns the whole queue in enqueue order and empties it in
\* the same step, so an event it returned is returned by no other poll; every
\* other step leaves the queued events in place and in order (it appends
\* behind them) or, at a launch, drops them all.
C24_PollFifoOnce ==
    [][IF call' # call /\ call'.op = "poll"
       THEN call'.ret = capture_queue /\ capture_queue' = << >>
       ELSE IsPrefix(capture_queue, capture_queue') \/ capture_queue' = << >>]_vars

\* C25: a poll leaves the queue empty and never adds to it, so a poll that
\* follows another with no detection enqueued in between finds nothing: a poll
\* made while nothing is pending returns the empty list and changes nothing.
C25_PollIdempotentDrain ==
    [][(call' # call /\ call'.op = "poll") =>
          /\ capture_queue' = << >>
          /\ capture_queue = << >> =>
                /\ call'.ret = << >>
                /\ UNCHANGED <<storeVars, captureVars, uploader, lockVars>>]_vars

\* a poll has found nothing pending although detections were enqueued before
C25_Witness ==
    /\ call.op = "poll"
    /\ call.ret = << >>
    /\ capture_queue = << >>
    /\ capture_seen # {}

(***************************************************************************)
(* SpecRoundLive: rounds begin and end while the loop runs, is stopped and *)
(* detections are polled.                                                  *)
(***************************************************************************)
NextRoundLive ==
    \/ BeginRound \/ EndRound \/ Poll
    \/ StopBegin \/ StopJoined \/ StopJoinTimeout
    \/ \E t \in ThreadIds : ThreadCheck(t)
    \/ \E t \in ThreadIds : ThreadReadFail(t)
    \/ \E t \in ThreadIds : PollThreadFrame(t)

SpecRoundLive == InitStore /\ [][NextRoundLive]_vars

\* the elements of m behind its first n
Behind(m, n) == SubSeq(m, n + 1, Len(m))

\* how many code-level events for payload p a list of events holds
CodeEventsFor(events, p) ==
    Cardinality({j \in 1..Len(events) : ~events[j].caixa /\ events[j].codigo = p})

\* C32: in every iteration of the loop, each payload the iteration appends to
\* the ledger gets exactly one code-level event enqueued by that iteration,
\* also when a round has begun while the loop runs and the payload is seen
\* again in the new round.
C32_OneEventPerNewPayload ==
    [][(\E t \in ThreadIds : threads[t].pc = "read" /\ threads'[t].pc = "loop") =>
          LET appended == Behind(codigos'.rows, Len(codigos.rows))
              enqueued == Behind(capture_queue', Len(capture_queue))
          IN  \A i \in 1..Len(appended) :
                  CodeEventsFor(enqueued, appended[i].codigo) = 1]_vars

\* C26: ronda_comecar leaves the ledger empty (read_codigos_encontrados
\* returns the empty set right after it) and changes nothing else: the
\* registry, the counter, the threads and their handle, the stop event, the
\* seen set, the queue and the preview are as before.
C26_BeginRoundOnlyClearsLedger ==
    [][(call.op # "comecar" /\ call'.op = "comecar") =>
          /\ ReadCodigosEncontrados(codigos') = {}
          /\ codigos'.exists /\ codigos'.rows = << >>
          /\ UNCHANGED <<caixas, contagem, captureVars, uploader, lockVars>>]_vars

\* a round has begun while the ledger held codes, a box was registered and
\* the capture had seen and queued detections
C26_Witness ==
    /\ call.op = "comecar"
    /\ codigos.rows = << >>
    /\ caixas.rows # << >>
    /\ capture_seen # {}
    /\ capture_queue # << >>
    /\ AliveThreads # {}

\* C27: ronda_encerrar changes neither the ledger nor the registry nor the
\* counter nor the capture state, and its report is the report of the files
\* as it leaves them: a second call with no write in between returns the
\* same report.
C27_EndRoundNoSideEffects ==
    [][(call' # call /\ call'.op = "encerrar") =>
          /\ UNCHANGED <<storeVars, captureVars, uploader, lockVars>>
          /\ call'.ret = Relatorio(codigos', caixas')]_vars

\* a round has ended with codes in the ledger and a box in the registry
C27_Witness ==
    /\ call.op = "encerrar"
    /\ codigos.rows # << >>
    /\ caixas.rows # << >>
    /\ call.ret.boxes_found # << >>

\* a poll has returned several events, and more have been enqueued since
C24_Witness ==
    /\ call.op = "poll"
    /\ Len(call.ret) >= 2
    /\ capture_queue # << >>
    /\ \A i \in 1..Len(capture_queue), j \in 1..Len(call.ret) :
          capture_queue[i] # call.ret[j]

(***************************************************************************)
(* SpecVideo: POST /api/processar_video of app.py, with and without the    *)
(* 'video' part, and the rounds of app.py around it.                       *)
(***************************************************************************)
PQR == << "Q", "R" >>

\* code.startswith('QR')
StartsWithQR(c) == Len(c) >= 2 /\ c[1] = "Q" /\ c[2] = "R"

RECURSIVE SelectCodes(_, _)
SelectCodes(codes, qr) ==
    IF codes = << >> THEN << >>
    ELSE (IF StartsWithQR(Head(codes)) = qr THEN << Head(codes) >> ELSE << >>)
         \o SelectCodes(Tail(codes), qr)

\* codes_found of extract_codes_from_video, in the order the set is iterated
VideoCodes ==
    { << >>, << PA >>, << PQR >>, << PA, PQR >>, << PQR, PA >>, << PB, PA >> }

\* what a request carries: the 'video' part or not, its filename empty or
\* not, whether the temporary file can be written, the codes in the video
VideoRequests ==
    [has_video : BOOLEAN, has_name : BOOLEAN, saved : BOOLEAN, codes : VideoCodes]

\* the answer and the ledger after processar_video
ProcessarVideoOf(cod, rq) ==
    IF ~rq.has_video THEN [codigos |-> cod, status |-> 400, body |-> "erro"]
    ELSE IF ~rq.has_name THEN [codigos |-> cod, status |-> 400, body |-> "erro"]
    ELSE IF ~rq.saved THEN [codigos |-> cod, status |-> 500, body |-> "erro"]
    ELSE LET qr_codes == SelectCodes(rq.codes, TRUE)
             barcodes == SelectCodes(rq.codes, FALSE)
             to_add == SaveRead(cod, qr_codes, barcodes)
         IN  [codigos |-> SaveWrite(cod, to_add), status |-> 200, body |-> "sucesso"]

\* processar_video without the test for the 'video' part: the request is
\* handled as one whose video holds the codes
ProcessarVideoUnchecked(cod, rq) ==
    ProcessarVideoOf(cod, [rq EXCEPT !.has_video = TRUE])

ProcessarVideoResult(cod, rq) == ProcessarVideoOf(cod, rq)

ProcessarVideo ==
    \E rq \in VideoRequests :
        LET r == ProcessarVideoResult(codigos, rq)
        IN  /\ codigos' = r.codigos
            /\ call' = [op |-> "video", has_video |-> rq.has_video,
                        status |-> r.status, body |-> r.body]
            /\ UNCHANGED <<caixas, contagem, captureVars, uploader, lockVars>>

NextVideo == ProcessarVideo \/ App1Comecar \/ App1Register

SpecVideo == InitRegistry /\ [][NextVideo]_vars

\* C28: POST /api/processar_video without a 'video' part is answered with
\* status 400 and an error body, and changes neither the ledger nor the
\* registry (nor the counter).
C28_VideoWithoutFileRejected ==
    [][(call'.op = "video" /\ ~call'.has_video) =>
          /\ call'.status = 400
          /\ call'.body = "erro"
          /\ UNCHANGED <<codigos, caixas, contagem>>]_vars

\* a request without the 'video' part has been rejected while the ledger and
\* the registry held data
C28_Witness ==
    /\ call.op = "video" /\ ~call.has_video /\ call.status = 400
    /\ codigos.rows # << >>
    /\ caixas.rows # << >>

(***************************************************************************)
(* SpecFaults: a running loop whose store operations can fail: the         *)
(* directory cannot be created, a file cannot be read, a file cannot be    *)
(* opened for writing.                                                     *)
(***************************************************************************)
\* which operations of one iteration succeed
Faults ==
    [mkdir_ledger : BOOLEAN, read_ledger : BOOLEAN, write_ledger : BOOLEAN,
     flush_ledger : BOOLEAN,
     mkdir_reg : BOOLEAN, read_reg : BOOLEAN, write_reg : BOOLEAN,
     write_count : BOOLEAN]

\* save_unique_codes: os.makedirs is outside every try (it raises);
\* load_existing_codes returns {} when the read fails; the append is inside
\* try / except. When open fails (write_ledger) nothing is written and
\* new_list stays empty. When open succeeds, every writerow goes to the
\* buffer of the file object and its code goes to new_list; the bytes reach
\* the file when the 'with' block closes it, and when that flush fails
\* (flush_ledger: disk full, quota, I/O error) the except clause logs it and
\* new_list is returned as it stands, with the file created but no row in it.
SaveUniqueCodesIO(cod, qr_codes, barcodes, io) ==
    LET existing == IF io.read_ledger THEN LoadExistingCodes(cod) ELSE {}
        to_add == ToAdd(Merged(qr_codes, barcodes), existing)
        buffered == IF io.write_ledger THEN to_add ELSE << >>
    IN  IF ~io.mkdir_ledger
        THEN [raised |-> TRUE, codigos |-> cod, new_list |-> << >>]
        ELSE IF buffered # << >> /\ ~io.flush_ledger
        THEN [raised |-> FALSE, codigos |-> [exists |-> TRUE, rows |-> cod.rows],
              new_list |-> NewList(buffered)]
        ELSE [raised |-> FALSE, codigos |-> SaveWrite(cod, buffered),
              new_list |-> NewList(buffered)]

\* register_caixa: os.makedirs is outside every try (it raises); caixa_exists
\* returns False when the read fails; a failed append returns (False, 0); a
\* failed write of the counter is logged and (True, total) is returned
RegisterCaixaFaulty(cx, ct, qr_codes, barcodes, io) ==
    IF ~io.mkdir_reg
    THEN [raised |-> TRUE, caixas |-> cx, contagem |-> ct,
          ret |-> [isNew |-> FALSE, total |-> 0]]
    ELSE IF io.read_reg /\ CaixaExists(cx, Sorted(qr_codes), Sorted(barcodes))
    THEN [raised |-> FALSE, caixas |-> cx, contagem |-> ct,
          ret |-> [isNew |-> FALSE, total |-> ReadContagem(ct)]]
    ELSE IF ~io.write_reg
    THEN [raised |-> FALSE, caixas |-> cx, contagem |-> ct,
          ret |-> [isNew |-> FALSE, total |-> 0]]
    ELSE [raised |-> FALSE, caixas |-> RegAppend(cx, qr_codes, barcodes),
          contagem |-> IF io.write_count THEN IntCount(ReadContagem(ct) + 1) ELSE ct,
          ret |-> [isNew |-> TRUE, total |-> ReadContagem(ct) + 1]]

\* one iteration of _capture_loop from the decoded frame on; raised: an
\* exception reached the 'except Exception' around the while, the thread ends
ProcessFrameIO(cod, cx, ct, seen, queue, decoded, io) ==
    LET frame_codes == FrameCodes(<<>>, decoded)
        qr_codes == QrCodesOf(decoded)
        barcodes == BarcodesOf(decoded)
        sv == SaveUniqueCodesIO(cod, qr_codes, barcodes, io)
        ev == CodeEvents(queue, seen, sv.new_list, qr_codes)
        reg == RegisterCaixaFaulty(cx, ct, QrForBox(decoded), BcForBox(decoded), io)
    IN  IF frame_codes = <<>>
        THEN [raised |-> FALSE, codigos |-> cod, caixas |-> cx, contagem |-> ct,
              seen |-> seen, queue |-> queue]
        ELSE IF sv.raised
        THEN [raised |-> TRUE, codigos |-> cod, caixas |-> cx, contagem |-> ct,
              seen |-> seen, queue |-> queue]
        ELSE IF RegistersBox(UniqueFrameCodes(decoded))
        THEN [raised |-> reg.raised, codigos |-> sv.codigos, caixas |-> reg.caixas,
              contagem |-> reg.contagem, seen |-> ev.seen,
              queue |-> IF reg.ret.isNew THEN Append(ev.queue, BoxEvent(decoded))
                        ELSE ev.queue]
        ELSE [raised |-> FALSE, codigos |-> sv.codigos, caixas |-> cx,
              contagem |-> ct, seen |-> ev.seen, queue |-> ev.queue]

\* the frames the camera shows: nothing, one code, a box of two codes
FaultFrames ==
    { << >>,
      << Det(PA, QRCODE) >>,
      << Det(PA, QRCODE), Det(PB, CODE128) >> }

\* a frame is read, published and processed while the stores may fail
FaultyThreadFrame(t) ==
    /\ threads[t].pc = "read"
    /\ \E decoded \in FaultFrames, io \in Faults :
          LET r == ProcessFrameIO(codigos, caixas, contagem, capture_seen,
                                  capture_queue, decoded, io)
          IN  /\ Len(r.codigos.rows) <= MaxRows
              /\ Len(r.caixas.rows) <= MaxBoxes
              /\ codigos' = r.codigos
              /\ caixas' = r.caixas
              /\ contagem' = r.contagem
              /\ capture_seen' = r.seen
              /\ capture_queue' = r.queue
              /\ threads' = SetPc(t, IF r.raised THEN "dead" ELSE "loop")
    /\ last_frame_jpeg' = t
    /\ UNCHANGED <<call, capture_thread, capture_lock, stop_event, starts, stopper,
                   uploader, lockVars>>

NextFaults ==
    \/ BeginRound
    \/ \E t \in ThreadIds : ThreadCheck(t)
    \/ \E t \in ThreadIds : ThreadReadFail(t)
    \/ \E t \in ThreadIds : FaultyThreadFrame(t)

SpecFaults == InitStore /\ [][NextFaults]_vars

\* an operation on the ledger fails
LedgerFault(io) ==
    ~io.mkdir_ledger \/ ~io.read_ledger \/ ~io.write_ledger \/ ~io.flush_ledger

\* an operation on the registry or the counter fails
RegistryFault(io) ==
    ~io.mkdir_reg \/ ~io.read_reg \/ ~io.write_reg \/ ~io.write_count

\* C31: whatever store operation fails while the loop processes a frame, no
\* exception ends the loop, and the store that failed records nothing in that
\* cycle: a ledger failure leaves the ledger and the seen set as they were, a
\* registry failure leaves the registry and the counter as they were.
C31_StoreFailureAbsorbed ==
    \A t \in ThreadIds :
        threads[t].pc = "read" =>
            \A decoded \in FaultFrames, io \in Faults :
                LET r == ProcessFrameIO(codigos, caixas, contagem, capture_seen,
                                        capture_queue, decoded, io)
                IN  /\ ~r.raised
                    /\ LedgerFault(io) =>
                          r.codigos = codigos /\ r.seen = capture_seen
                    /\ RegistryFault(io) =>
                          r.caixas = caixas /\ r.contagem = contagem

\* C37: a code-level event is enqueued only after its payload has been
\* recorded in the ledger: when an iteration of the loop has put an event for
\* payload p in the queue, the ledger that iteration leaves holds a row for p.
C37_EventAfterLedger ==
    [][LET enqueued == Behind(capture_queue', Len(capture_queue))
       IN  \A j \in 1..Len(enqueued) :
               ~enqueued[j].caixa => enqueued[j].codigo \in Keys(codigos'.rows)]_vars

(***************************************************************************)
(* SpecEvents: a running loop whose frames show boxes, one of them with    *)
(* payloads that hold the separator; detections are polled.                *)
(***************************************************************************)
EventFrames ==
    { << >>,
      << Det(PA, QRCODE), Det(PB, CODE128) >>,
      << Det(PS, QRCODE), Det(PSS, CODE128) >> }

EventThreadFrame(t) == ThreadFrameIn(t, EventFrames)

NextEvents ==
    \/ Poll \/ BeginRound
    \/ \E t \in ThreadIds : ThreadCheck(t)
    \/ \E t \in ThreadIds : ThreadReadFail(t)
    \/ \E t \in ThreadIds : EventThreadFrame(t)

SpecEvents == InitStore /\ [][NextEvents]_vars

\* the positions of the box-level events in a list of events
BoxEventsAt(events) == {j \in 1..Len(events) : events[j].caixa}

\* C33: an iteration of the loop enqueues a box-level event exactly when its
\* register_caixa call registered a new box, at most one, behind the
\* code-level events of the frame; and never for a frame whose pair of sets
\* is already in the registry (the row it would write is already there).
C33_BoxEventIffNewBox ==
    [][(\E t \in ThreadIds : threads[t].pc = "read" /\ threads'[t].pc = "loop") =>
          LET enqueued == Behind(capture_queue', Len(capture_queue))
              appended == Behind(caixas'.rows, Len(caixas.rows))
          IN  /\ (BoxEventsAt(enqueued) # {}) <=> (appended # << >>)
              /\ BoxEventsAt(enqueued) \subseteq {Len(enqueued)}
              /\ \A i \in 1..Len(appended), j \in 1..Len(caixas.rows) :
                    appended[i] # caixas.rows[j]]_vars

(***************************************************************************)
(* SpecLive: StartCapture, StopCapture and the loops under a fair          *)
(* scheduler: every step of a loop that can be taken is taken in the end,  *)
(* and a frame read always returns.                                        *)
(***************************************************************************)
NextLive ==
    \/ StartCheck("s1") \/ OpsNegotiateOk("s1") \/ Launch("s1")
    \/ StopNoop \/ StopBegin \/ StopJoined \/ StopJoinTimeout
    \/ Poll
    \/ \E t \in ThreadIds : ThreadOpen(t)
    \/ \E t \in ThreadIds : ThreadCheck(t)
    \/ \E t \in ThreadIds : ThreadReadFail(t)
    \/ \E t \in ThreadIds : EventThreadFrame(t)

\* the scheduler runs every thread that can run; cap.read() and the HTTP
\* reads return
FairLoops ==
    \A t \in 1..MaxThreads :
        /\ WF_vars(t \in ThreadIds /\ ThreadOpen(t))
        /\ WF_vars(t \in ThreadIds /\ ThreadCheck(t))
        /\ WF_vars(t \in ThreadIds /\ (ThreadReadFail(t) \/ EventThreadFrame(t)))

SpecLive == InitRegistry /\ [][NextLive]_vars /\ FairLoops

\* C35: a loop that camera_live_stop has signalled (the stop event is set
\* and the request joins it) ends in the end, whatever requests follow.
C35_SignalledLoopEnds ==
    \A t \in 1..MaxThreads :
        (stopper.pc = "join" /\ stopper.target = t)
            ~> (t \in ThreadIds /\ threads[t].pc = "dead")

(***************************************************************************)
(* SpecIdentity: a running loop and upload_image that see the same box,    *)
(* once with each symbol decoded once and once with the QR symbol decoded  *)
(* twice (two copies of the label in the picture).                         *)
(***************************************************************************)
IdentityFrames ==
    { << >>,
      << Det(PA, QRCODE), Det(PB, CODE128) >>,
      << Det(PA, QRCODE), Det(PA, QRCODE), Det(PB, CODE128) >> }

IdentityImages ==
    { << Det(PA, QRCODE), Det(PB, CODE128) >>,
      << Det(PA, QRCODE), Det(PA, QRCODE), Det(PB, CODE128) >>,
      << Det(PB, CODE128), Det(PA, QRCODE), Det(PB, CODE128) >> }

IdentityThreadFrame(t) == ThreadFrameIn(t, IdentityFrames)

IdentitySubmitImage ==
    \E img \in IdentityImages :
        LET r == UploadImage(codigos, caixas, contagem, img)
        IN  /\ Len(r.caixas.rows) <= MaxBoxes
            /\ codigos' = r.codigos
            /\ caixas' = r.caixas
            /\ contagem' = r.contagem
            /\ call' = [op |-> "upload", img |-> img, ret |-> r.ret]
            /\ UNCHANGED <<captureVars, uploader, lockVars>>

NextIdentity ==
    \/ IdentitySubmitImage \/ BeginRound \/ Poll
    \/ \E t \in ThreadIds : ThreadCheck(t)
    \/ \E t \in ThreadIds : ThreadReadFail(t)
    \/ \E t \in ThreadIds : IdentityThreadFrame(t)

SpecIdentity == InitStore /\ [][NextIdentity]_vars

\* two rows of the registry name the same set of QR payloads and the same
\* set of barcode payloads
SameSets(r1, r2) ==
    /\ Elems(RowQrTuple(r1)) = Elems(RowQrTuple(r2))
    /\ Elems(RowBcTuple(r1)) = Elems(RowBcTuple(r2))

\* C36: box identity is set-based on every registration path: no request and
\* no loop iteration appends a row whose set of QR payloads and set of
\* barcode payloads are those of a row already in the registry, also when
\* the image shows one payload more than once.
C36_SetBasedIdentity ==
    [][\A k \in (Len(caixas.rows) + 1)..Len(caixas'.rows), j \in 1..Len(caixas.rows) :
          ~SameSets(caixas'.rows[k], caixas.rows[j])]_vars

(***************************************************************************)
(* SpecLocks: start, stop, poll, the preview readers and the capture       *)
(* loops, every 'with <lock>' taken in two steps: the thread gets the lock *)
(* (it waits while another thread holds it), then runs the body and        *)
(* releases it.  The steps of a thread between two locks are one step.     *)
(***************************************************************************)
LockFrames ==
    { << >>,
      << Det(PA, QRCODE), Det(PB, CODE128) >> }

\* the name under which a capture thread holds a lock
ThreadName(t) == "loop" \o ToString(t)

lockFrame == <<call, capture_thread, capture_lock, stop_event, starts, stopper, uploader>>

\* camera_live_start, 'with _capture_lock' of the launch: the event is
\* cleared and _capture_seen replaced
LaunchAcquire(s) ==
    /\ starts[s].pc = "launch"
    /\ capture_lock = "free"
    /\ Len(threads) < MaxLoops
    /\ capture_lock' = s
    /\ stop_event' = FALSE
    /\ capture_seen' = {}
    /\ starts' = [starts EXCEPT ![s].pc = "clear"]
    /\ UNCHANGED <<storeVars, call, capture_thread, capture_queue, last_frame_jpeg,
                   threads, stopper, uploader, lockVars>>

\* camera_live_start, 'with _queue_lock' inside 'with _capture_lock'
LaunchQueueAcquire(s) ==
    /\ starts[s].pc = "clear"
    /\ queue_lock = "free"
    /\ queue_lock' = s
    /\ starts' = [starts EXCEPT ![s].pc = "cleared"]
    /\ UNCHANGED <<storeVars, call, capture_thread, capture_lock, stop_event,
                   capture_seen, capture_queue, last_frame_jpeg, threads, stopper,
                   uploader, last_frame_lock, poller, viewer>>

\* _capture_queue.clear(), and _queue_lock is released
LaunchQueueClear(s) ==
    /\ starts[s].pc = "cleared"
    /\ capture_queue' = <<>>
    /\ queue_lock' = "free"
    /\ starts' = [starts EXCEPT ![s].pc = "spawn"]
    /\ UNCHANGED <<storeVars, call, capture_thread, capture_lock, stop_event,
                   capture_seen, last_frame_jpeg, threads, stopper, uploader,
                   last_frame_lock, poller, viewer>>

\* the thread is created and started, _capture_lock is released, the reply
LaunchSpawn(s) ==
    /\ starts[s].pc = "spawn"
    /\ threads' = Append(threads, NewThread(starts[s].mode))
    /\ capture_thread' = Len(threads) + 1
    /\ capture_lock' = "free"
    /\ starts' = [starts EXCEPT ![s] = [pc |-> "idle", mode |-> "none"]]
    /\ call' = [op |-> "start", id |-> s, ok |-> TRUE, mode |-> starts[s].mode]
    /\ UNCHANGED <<storeVars, stop_event, capture_seen, capture_queue,
                   last_frame_jpeg, stopper, uploader, lockVars>>

\* camera_live_stop: join(timeout=5.0) returns, because the loop has ended or
\* after 5 s while the loop is inside a frame read; _capture_thread = None
LockStopJoin ==
    /\ stopper.pc = "join"
    /\ ~Alive(stopper.target) \/ threads[stopper.target].pc = "read"
    /\ capture_thread' = 0
    /\ threads' = [threads EXCEPT ![stopper.target].stopped = TRUE]
    /\ stopper' = [stopper EXCEPT !.pc = "unpublish"]
    /\ UNCHANGED <<storeVars, call, capture_lock, stop_event, capture_seen,
                   capture_queue, last_frame_jpeg, starts, uploader, lockVars>>

\* camera_live_stop, 'with _last_frame_lock' inside 'with _capture_lock'
StopFrameAcquire ==
    /\ stopper.pc = "unpublish"
    /\ last_frame_lock = "free"
    /\ last_frame_lock' = "stop"
    /\ stopper' = [stopper EXCEPT !.pc = "clearing"]
    /\ UNCHANGED <<storeVars, call, capture_thread, capture_lock, stop_event,
                   capture_seen, capture_queue, last_frame_jpeg, threads, starts,
                   uploader, queue_lock, poller, viewer>>

\* _last_frame_jpeg = None, both locks are released, the reply
StopFrameClear ==
    /\ stopper.pc = "clearing"
    /\ last_frame_jpeg' = 0
    /\ last_frame_lock' = "free"
    /\ capture_lock' = "free"
    /\ stopper' = [pc |-> "idle", target |-> 0]
    /\ call' = [op |-> "stop", ok |-> TRUE, msg |-> "captura parada"]
    /\ UNCHANGED <<storeVars, capture_thread, stop_event, capture_seen,
                   capture_queue, threads, starts, uploader, queue_lock, poller,
                   viewer>>

\* decode(frame): a frame without codes ends the iteration; otherwise
\* save_unique_codes, which takes no lock
LockSave(t, decoded) ==
    LET to_add == SaveRead(codigos, QrCodesOf(decoded), BarcodesOf(decoded))
    IN  IF FrameCodes(<<>>, decoded) = <<>>
        THEN /\ threads' = EndIteration(t)
             /\ UNCHANGED codigos
        ELSE /\ codigos' = SaveWrite(codigos, to_add)
             /\ threads' = [threads EXCEPT ![t] =
                   [@ EXCEPT !.pc = "enqueue", !.frame = decoded, !.to_add = to_add]]

\* the loop reads a frame; when cv2.imencode fails nothing is published and
\* the iteration goes on to decode
LockFrameRead(t) ==
    /\ threads[t].pc = "read"
    /\ \E decoded \in LockFrames, ok_enc \in BOOLEAN :
          IF ok_enc
          THEN /\ threads' = [threads EXCEPT ![t] =
                     [@ EXCEPT !.frame = decoded, !.pc = "publish"]]
               /\ UNCHANGED codigos
          ELSE LockSave(t, decoded)
    /\ UNCHANGED <<caixas, contagem, capture_seen, capture_queue, last_frame_jpeg,
                   lockFrame, lockVars>>

\* the loop, 'with _last_frame_lock'
PublishAcquire(t) ==
    /\ threads[t].pc = "publish"
    /\ last_frame_lock = "free"
    /\ last_frame_lock' = ThreadName(t)
    /\ threads' = SetPc(t, "publishing")
    /\ UNCHANGED <<storeVars, capture_seen, capture_queue, last_frame_jpeg,
                   lockFrame, queue_lock, poller, viewer>>

\* _last_frame_jpeg = buf.tobytes(), _last_frame_lock is released, and the
\* iteration goes on to decode
Publish(t) ==
    /\ threads[t].pc = "publishing"
    /\ last_frame_jpeg' = t
    /\ last_frame_lock' = "free"
    /\ LockSave(t, threads[t].frame)
    /\ UNCHANGED <<caixas, contagem, capture_seen, capture_queue, lockFrame,
                   queue_lock, poller, viewer>>

\* 'for c in new_list: if c in _capture_seen: continue': what is left of
\* new_list from its first code that is not in _capture_seen
RECURSIVE Unseen(_, _)
Unseen(to_add, seen) ==
    IF to_add = <<>> THEN <<>>
    ELSE IF Head(to_add).codigo \in seen THEN Unseen(Tail(to_add), seen)
    ELSE to_add

\* a version of EnqueueAcquire that goes on without taking _queue_lock
EnqueueUnlocked(t) ==
    /\ threads[t].pc = "enqueue"
    /\ Unseen(threads[t].to_add, capture_seen) # <<>>
    /\ threads' = [threads EXCEPT ![t] =
          [@ EXCEPT !.pc = "enqueuing", !.to_add = Unseen(@, capture_seen)]]
    /\ UNCHANGED <<storeVars, capture_seen, capture_queue, last_frame_jpeg,
                   lockFrame, lockVars>>

\* the loop comes to a code that is not in _capture_seen:
\* 'with _queue_lock' of its confirmation
EnqueueAcquire(t) ==
    /\ threads[t].pc = "enqueue"
    /\ Unseen(threads[t].to_add, capture_seen) # <<>>
    /\ queue_lock = "free"
    /\ queue_lock' = ThreadName(t)
    /\ threads' = [threads EXCEPT ![t] =
          [@ EXCEPT !.pc = "enqueuing", !.to_add = Unseen(@, capture_seen)]]
    /\ UNCHANGED <<storeVars, capture_seen, capture_queue, last_frame_jpeg,
                   lockFrame, last_frame_lock, poller, viewer>>

\* _capture_queue.append(confirmation), _queue_lock is released, and
\* _capture_seen.add(c)
Enqueue(t) ==
    /\ threads[t].pc = "enqueuing"
    /\ LET ev == CodeEvents(capture_queue, {},
                            NewList(<<Head(threads[t].to_add)>>),
                            QrCodesOf(threads[t].frame))
       IN  /\ capture_queue' = ev.queue
           /\ capture_seen' = capture_seen \cup ev.seen
    /\ queue_lock' = "free"
    /\ threads' = [threads EXCEPT ![t] =
                      [@ EXCEPT !.pc = "enqueue", !.to_add = Tail(@)]]
    /\ UNCHANGED <<storeVars, last_frame_jpeg, lockFrame, last_frame_lock, poller,
                   viewer>>

\* 'if len(unique_frame_codes) >= 2' and register_caixa, which takes no lock
LockRegister(t) ==
    /\ threads[t].pc = "enqueue"
    /\ Unseen(threads[t].to_add, capture_seen) = <<>>
    /\ LET decoded == threads[t].frame
           reg == RegisterCaixa(caixas, contagem, QrForBox(decoded), BcForBox(decoded))
       IN  IF RegistersBox(UniqueFrameCodes(decoded))
           THEN /\ Len(reg.caixas.rows) <= MaxBoxes
                /\ caixas' = reg.caixas
                /\ contagem' = reg.contagem
                /\ threads' = IF reg.ret.isNew THEN SetPc(t, "boxev")
                              ELSE EndIteration(t)
           ELSE /\ threads' = EndIteration(t)
                /\ UNCHANGED <<caixas, contagem>>
    /\ UNCHANGED <<codigos, capture_seen, capture_queue, last_frame_jpeg,
                   lockFrame, lockVars>>

\* the loop, 'with _queue_lock' of the box event
BoxEventAcquire(t) ==
    /\ threads[t].pc = "boxev"
    /\ queue_lock = "free"
    /\ queue_lock' = ThreadName(t)
    /\ threads' = SetPc(t, "boxenq")
    /\ UNCHANGED <<storeVars, capture_seen, capture_queue, last_frame_jpeg,
                   lockFrame, last_frame_lock, poller, viewer>>

\* _capture_queue.append of the box event, _queue_lock is released
BoxEventEnqueue(t) ==
    /\ threads[t].pc = "boxenq"
    /\ capture_queue' = Append(capture_queue, BoxEvent(threads[t].frame))
    /\ queue_lock' = "free"
    /\ threads' = EndIteration(t)
    /\ UNCHANGED <<storeVars, capture_seen, last_frame_jpeg, lockFrame,
                   last_frame_lock, poller, viewer>>

\* camera_live_poll, 'with _queue_lock'
PollAcquire ==
    /\ poller = "idle"
    /\ queue_lock = "free"
    /\ queue_lock' = "poll"
    /\ poller' = "locked"
    /\ UNCHANGED <<storeVars, capture_seen, capture_queue, last_frame_jpeg, threads,
                   lockFrame, last_frame_lock, viewer>>

\* items = list(_capture_queue); _capture_queue.clear(); the lock is released
PollDrain ==
    /\ poller = "locked"
    /\ call' = [op |-> "poll", ret |-> capture_queue]
    /\ capture_queue' = <<>>
    /\ queue_lock' = "free"
    /\ poller' = "idle"
    /\ UNCHANGED <<storeVars, capture_thread, capture_lock, stop_event,
                   capture_seen, last_frame_jpeg, threads, starts, stopper, uploader,
                   last_frame_lock, viewer>>

\* camera_frame, and one turn of the generator of camera_mjpeg:
\* 'with _last_frame_lock'
ViewAcquire ==
    /\ viewer = "idle"
    /\ last_frame_lock = "free"
    /\ last_frame_lock' = "view"
    /\ viewer' = "locked"
    /\ UNCHANGED <<storeVars, capture_seen, capture_queue, last_frame_jpeg, threads,
                   lockFrame, queue_lock, poller>>

\* data = _last_frame_jpeg, and the lock is released
ViewRead ==
    /\ viewer = "locked"
    /\ call' = [op |-> "frame", ret |-> last_frame_jpeg]
    /\ last_frame_lock' = "free"
    /\ viewer' = "idle"
    /\ UNCHANGED <<storeVars, capture_thread, capture_lock, stop_event,
                   capture_seen, capture_queue, last_frame_jpeg, threads, starts,
                   stopper, uploader, queue_lock, poller>>

NextLocks ==
    \/ StartCheck("s1") \/ OpsNegotiateOk("s1")
    \/ LaunchAcquire("s1") \/ LaunchQueueAcquire("s1")
    \/ LaunchQueueClear("s1") \/ LaunchSpawn("s1")
    \/ StopBegin \/ LockStopJoin \/ StopFrameAcquire \/ StopFrameClear
    \/ PollAcquire \/ PollDrain \/ ViewAcquire \/ ViewRead
    \/ \E t \in ThreadIds : ThreadOpen(t)
    \/ \E t \in ThreadIds : ThreadCheck(t)
    \/ \E t \in ThreadIds : LockFrameRead(t)
    \/ \E t \in ThreadIds : PublishAcquire(t)
    \/ \E t \in ThreadIds : Publish(t)
    \/ \E t \in ThreadIds : EnqueueAcquire(t)
    \/ \E t \in ThreadIds : Enqueue(t)
    \/ \E t \in ThreadIds : LockRegister(t)
    \/ \E t \in ThreadIds : BoxEventAcquire(t)
    \/ \E t \in ThreadIds : BoxEventEnqueue(t)

SpecLocks == InitRegistry /\ [][NextLocks]_vars

\* the threads that take locks
LockProcs == {"s1", "stop"} \cup {ThreadName(t) : t \in ThreadIds}

\* what a capture thread waits for: the holder of the lock it is about to
\* take, "free" when it does not wait
ThreadWaitsOn(t) ==
    IF threads[t].pc = "publish" THEN last_frame_lock
    ELSE IF threads[t].pc = "boxev" THEN queue_lock
    ELSE IF /\ threads[t].pc = "enqueue"
            /\ Unseen(threads[t].to_add, capture_seen) # <<>>
    THEN queue_lock
    ELSE "free"

\* what a thread waits for: the holder of the lock it is about to take, or
\* the thread it joins, "free" when it does not wait.  A poll or a preview
\* reader holds no lock while it waits and never waits while it holds one.
WaitsOn(p) ==
    IF p = "s1"
    THEN IF starts[p].pc = "launch" THEN capture_lock
         ELSE IF starts[p].pc = "clear" THEN queue_lock
         ELSE "free"
    ELSE IF p = "stop"
    THEN IF stopper.pc = "join" /\ Alive(stopper.target)
         THEN ThreadName(stopper.target)
         ELSE IF stopper.pc = "unpublish" THEN last_frame_lock
         ELSE "free"
    ELSE IF \E t \in ThreadIds : p = ThreadName(t)
    THEN ThreadWaitsOn(CHOOSE t \in ThreadIds : p = ThreadName(t))
    ELSE "free"

\* following the waits from p for n steps never comes to a thread that can run
RECURSIVE WaitsForEver(_, _)
WaitsForEver(p, n) ==
    IF p = "free" THEN FALSE
    ELSE IF n = 0 THEN TRUE
    ELSE WaitsForEver(WaitsOn(p), n - 1)

\* no thread waits, directly or through others, for a thread that waits for it
NoWaitCycle == \A p \in LockProcs : ~WaitsForEver(p, Cardinality(LockProcs) + 2)

\* a step that reads or writes _capture_queue is taken under _queue_lock
QueueUnderLock ==
    (capture_queue' # capture_queue \/ (call' # call /\ call'.op = "poll"))
        => queue_lock # "free"

\* a step that reads or writes _last_frame_jpeg is taken under _last_frame_lock
PreviewUnderLock ==
    (last_frame_jpeg' # last_frame_jpeg \/ (call' # call /\ call'.op = "frame"))
        => last_frame_lock # "free"

\* C38: the lock discipline is deadlock-free (in no reachable state does a
\* thread wait, for a lock or in the join, on a chain of threads that never
\* comes to one able to run), and every access to the detection queue and
\* to the published preview is made while its lock is held.
C38_LockDiscipline ==
    /\ []NoWaitCycle
    /\ [][QueueUnderLock /\ PreviewUnderLock]_vars

\* the stop request joins, under _capture_lock, a loop that waits for the
\* queue lock a poll holds, while a preview reader holds _last_frame_lock
C38_Witness ==
    /\ stopper.pc = "join"
    /\ capture_lock = "stop"
    /\ queue_lock = "poll"
    /\ last_frame_lock = "view"
    /\ ThreadWaitsOn(stopper.target) = "poll"

\* C39: the registry round-trips: after a register call that registered the
\* pair (isNew = true), the last box read_registered_boxes returns has the
\* QR payloads and the barcode payloads of the call, and caixa_exists
\* answers true for the pair, whatever the payloads, the separator included.
C39_RegistryRoundTrip ==
    [][(call' # call /\ call'.op = "register" /\ call'.ret.isNew)
       => LET boxes == ReadRegisteredBoxes(caixas')
              box == boxes[Len(boxes)]
          IN  /\ Elems(box.qrs) = Elems(call'.qr)
              /\ Elems(box.bcs) = Elems(call'.bc)
              /\ CaixaExists(caixas', call'.qr, call'.bc)]_vars

(***************************************************************************)
(* SpecKind: images in which one payload is decoded with both kinds, in    *)
(* either order, are uploaded; rounds begin.                               *)
(***************************************************************************)
KindImages ==
    { << Det(PA, CODE128), Det(PA, QRCODE) >>,
      << Det(PA, QRCODE), Det(PA, CODE128) >>,
      << Det(PB, CODE128), Det(PA, QRCODE) >>,
      << Det(PA, CODE128) >>,
      << Det(PB, QRCODE) >>,
      << Det(PB, CODE128), Det(PC, QRCODE), Det(PC, CODE128) >> }

SubmitKindImage ==
    \E img \in KindImages :
        LET r == UploadImage(codigos, caixas, contagem, img)
        IN  /\ Len(r.caixas.rows) <= MaxBoxes
            /\ codigos' = r.codigos
            /\ caixas' = r.caixas
            /\ contagem' = r.contagem
            /\ call' = [op |-> "upload", img |-> img, ret |-> r.ret]
            /\ UNCHANGED <<captureVars, uploader, lockVars>>

NextKind == SubmitKindImage \/ BeginRound

SpecKind == InitRegistry /\ [][NextKind]_vars

\* the kind of the first detection of payload p in the batch
FirstKind(img, p) ==
    LET i == CHOOSE k \in 1..Len(img) :
                 /\ img[k].data = p
                 /\ \A j \in 1..(k - 1) : img[j].data # p
    IN  IF img[i].type = QRCODE THEN QR ELSE BARCODE

\* C18: every record an upload adds to the ledger carries the kind of the
\* first detection of its payload in the decode order of the image, and the
\* records that were in the ledger stay as they were.
C18_FirstSeenKind ==
    [][call'.op = "upload" =>
         /\ IsPrefix(codigos.rows, codigos'.rows)
         /\ \A i \in (Len(codigos.rows) + 1)..Len(codigos'.rows) :
               codigos'.rows[i].tipo =
                  FirstKind(call'.img, codigos'.rows[i].codigo)]_vars

(***************************************************************************)
(* SpecLedger: sequential calls of save_unique_codes and                   *)
(* clear_codigos_encontrados with arbitrary lists.                         *)
(***************************************************************************)
InitLedger == InitRegistry

\* payloads passed to the ledger: '' and two codes
LedgerPayloads == {EmptyStr, PA, PB}

LedgerSave ==
    \E p \in ListPairs(LedgerPayloads, MaxLen) :
        LET qr == p[1]
            bc == p[2]
            toAdd == SaveRead(codigos, qr, bc)
        IN  /\ Len(codigos.rows) < MaxRows
            /\ codigos' = SaveWrite(codigos, toAdd)
            /\ call' = [op |-> "save", qr |-> qr, bc |-> bc, ret |-> NewList(toAdd)]
            /\ UNCHANGED <<caixas, contagem, captureVars, uploader, lockVars>>

LedgerClear ==
    /\ codigos' = ClearCodigos(codigos)
    /\ call' = [op |-> "clear"]
    /\ UNCHANGED <<caixas, contagem, captureVars, uploader, lockVars>>

NextLedger == LedgerSave \/ LedgerClear

SpecLedger == InitLedger /\ [][NextLedger]_vars

====
